---- MODULE Spec2Model ----
(***************************************************************************)
(* Model of the RAG indexing / retrieval pipeline of the AI-Agent-addon    *)
(* server: the SQLite index store (db.ts), the rebuild pipeline and the    *)
(* retriever (rag.ts), the crawl loop of the scraper (scraper.ts), and     *)
(* the service layer that starts rebuilds (server.ts, resolver.ts).        *)
(*                                                                         *)
(* Strings are sequences of one-character strings, so that lower-casing,   *)
(* substring search, chunk windows and lengths are computed, not assumed.  *)
(* JavaScript runs each handler to its next `await` without interleaving:  *)
(* every action below is one such run-to-completion segment.               *)
(***************************************************************************)
EXTENDS Integers, Sequences, FiniteSets, TLC

(***************************************************************************)
(* Strings                                                                 *)
(***************************************************************************)
UpperChars == <<"A", "B", "C", "D", "E", "F", "G", "H", "I", "J", "K", "L", "M",
                "N", "O", "P", "Q", "R", "S", "T", "U", "V", "W", "X", "Y", "Z">>
LowerChars == <<"a", "b", "c", "d", "e", "f", "g", "h", "i", "j", "k", "l", "m",
                "n", "o", "p", "q", "r", "s", "t", "u", "v", "w", "x", "y", "z">>
DigitChars == {"0", "1", "2", "3", "4", "5", "6", "7", "8", "9"}
SpaceChars == {" ", "\n", "\t"}

Range(s) == {s[i] : i \in DOMAIN s}

\* String.prototype.toLowerCase, one character (ASCII).
LowerChar(c) ==
  IF \E i \in DOMAIN UpperChars : UpperChars[i] = c
    THEN LowerChars[CHOOSE i \in DOMAIN UpperChars : UpperChars[i] = c]
    ELSE c

\* String.prototype.toLowerCase.
ToLower(s) == [i \in DOMAIN s |-> LowerChar(s[i])]

\* String.prototype.slice(from, to) with 0-based from (inclusive) and to
\* (exclusive), both already within 0..length.
Slice(s, from, to) == SubSeq(s, from + 1, to)

\* s occurs in hay starting at the 1-based position i.
OccursAt(hay, s, i) ==
  /\ i >= 1
  /\ i + Len(s) - 1 <= Len(hay)
  /\ SubSeq(hay, i, i + Len(s) - 1) = s

\* String.prototype.includes.
Includes(hay, s) == \E i \in 1..(Len(hay) + 1) : OccursAt(hay, s, i)

\* hay.split(term).length - 1 for a non-empty term: the occurrences of term
\* found scanning left to right, each search resuming after the last match.
RECURSIVE SplitCountFrom(_, _, _)
SplitCountFrom(hay, term, i) ==
  IF i + Len(term) - 1 > Len(hay) THEN 0
  ELSE IF OccursAt(hay, term, i)
    THEN 1 + SplitCountFrom(hay, term, i + Len(term))
    ELSE SplitCountFrom(hay, term, i + 1)

SplitCount(hay, term) == SplitCountFrom(hay, term, 1)

\* text.replace(/\s+/g, " "): every run of whitespace becomes one space.
RECURSIVE CollapseFrom(_, _, _)
CollapseFrom(s, i, inRun) ==
  IF i > Len(s) THEN <<>>
  ELSE IF s[i] \in SpaceChars
    THEN (IF inRun THEN <<>> ELSE <<" ">>) \o CollapseFrom(s, i + 1, TRUE)
    ELSE <<s[i]>> \o CollapseFrom(s, i + 1, FALSE)

CollapseSpaces(s) == CollapseFrom(s, 1, FALSE)

\* String.prototype.trim.
RECURSIVE Trim(_)
Trim(s) ==
  IF s = <<>> THEN s
  ELSE IF s[1] \in SpaceChars THEN Trim(Tail(s))
  ELSE IF s[Len(s)] \in SpaceChars THEN Trim(SubSeq(s, 1, Len(s) - 1))
  ELSE s

\* Array.prototype.join of a sequence of strings.
RECURSIVE Join(_, _)
Join(parts, sep) ==
  IF parts = <<>> THEN <<>>
  ELSE IF Len(parts) = 1 THEN parts[1]
  ELSE parts[1] \o sep \o Join(Tail(parts), sep)

\* Decimal digits of a non-negative integer, as template literals print it.
RECURSIVE Digits(_)
Digits(n) ==
  LET d == <<"0", "1", "2", "3", "4", "5", "6", "7", "8", "9">>[(n % 10) + 1]
  IN IF n < 10 THEN <<d>> ELSE Digits(n \div 10) \o <<d>>

(***************************************************************************)
(* rag.ts: configuration and the chunker                                   *)
(***************************************************************************)
\* RAG_CHUNK_SIZE and RAG_CHUNK_OVERLAP are environment knobs (defaults 1100
\* and 180); the model runs the deployment RAG_CHUNK_SIZE=24,
\* RAG_CHUNK_OVERLAP=6 so that a page of a few dozen characters is split.
CHUNK_SIZE == 24
CHUNK_OVERLAP == 6
TOP_K == 8
MAX_CONTEXT_CHARS == 12000

Min(a, b) == IF a <= b THEN a ELSE b
Max(a, b) == IF a >= b THEN a ELSE b

RECURSIVE ChunkWindowsNoOverlap(_, _)
ChunkWindowsNoOverlap(normalized, start) ==
  LET end == Min(Len(normalized), start + CHUNK_SIZE)
      piece == Slice(normalized, start, end)
  IN IF ~(start < Len(normalized)) THEN <<>>
     ELSE IF end >= Len(normalized) THEN <<piece>>
     ELSE <<piece>> \o ChunkWindowsNoOverlap(normalized, end)

\* The while loop of chunkText, from the 0-based window start.
RECURSIVE ChunkWindows(_, _)
ChunkWindows(normalized, start) ==
  LET end == Min(Len(normalized), start + CHUNK_SIZE)
      piece == Slice(normalized, start, end)
  IN IF ~(start < Len(normalized)) THEN <<>>
     ELSE IF end >= Len(normalized) THEN <<piece>>
     ELSE <<piece>> \o ChunkWindows(normalized, Max(0, end - CHUNK_OVERLAP))

ChunkTextUntrimmed(text) ==
  LET normalized == CollapseSpaces(text)
  IN IF normalized = <<>> THEN <<>>
     ELSE IF Len(normalized) <= CHUNK_SIZE THEN <<normalized>>
     ELSE ChunkWindows(normalized, 0)

ChunkText(text) ==
  LET normalized == Trim(CollapseSpaces(text))
  IN IF normalized = <<>> THEN <<>>
     ELSE IF Len(normalized) <= CHUNK_SIZE THEN <<normalized>>
     ELSE ChunkWindows(normalized, 0)

(***************************************************************************)
(* The site being indexed.  scrapesite returns one page per fetched URL;   *)
(* a page is kept only when its whitespace-collapsed, trimmed text has at  *)
(* least MIN_TEXT characters, and its content is that text cut to          *)
(* MAX_CONTENT characters.                                                 *)
(***************************************************************************)
MIN_TEXT == 20
MAX_CONTENT == 8000

SITE_DOMAIN == <<"h", "t", "t", "p", ":", "/", "/", "a", ".", "c", "o">>
SITE_NAME == "Example Site"
MOCK_ID_DOMAIN == SITE_DOMAIN
MOCK_SITE_NAME == SITE_NAME
MOCK_ID_UPDATED == FALSE
Domains == {SITE_DOMAIN, MOCK_ID_DOMAIN}

UrlRoot == SITE_DOMAIN \o <<"/">>
UrlAbout == SITE_DOMAIN \o <<"/", "a", "b", "o", "u", "t">>
TitleAcme == <<"A", "c", "m", "e">>
Untitled == <<"U", "n", "t", "i", "t", "l", "e", "d">>

\* What the text extractor can produce for the site's two URLs: the home page
\* in two successive versions, and an about page without a <title> or <h1>,
\* which at times is a short placeholder.
TextHomeV1 == <<"A", "c", "m", "e", " ", "p", "h", "o", "t", "o", "g", "r", "a", "p", "h", "y",
                " ", "a", "n", "d", " ", "d", "r", "a", "i", "n", " ", "r", "e", "p", "a", "i", "r">>
TextAbout == <<"D", "r", "a", "i", "n", " ", "D", "R", "A", "I", "N", " ", "w", "e", "b", " ",
               "a", "p", "p", "l", "i", "c", "a", "t", "i", "o", "n">>
TextSoon == <<"C", "o", "m", "i", "n", "g", " ", "s", "o", "o", "n">>

Extracted ==
  { [url |-> UrlRoot, title |-> TitleAcme, text |-> TextHomeV1],
    [url |-> UrlAbout, title |-> <<>>, text |-> TextAbout],
    [url |-> UrlAbout, title |-> <<>>, text |-> TextSoon] }

\* The pages the crawl tasks push for a set of extracted documents (none
\* for a text shorter than MIN_TEXT).
PagesOf(docs) ==
  { [url |-> e.url, title |-> e.title,
     content |-> Slice(e.text, 0, Min(Len(e.text), MAX_CONTENT))] :
      e \in {x \in docs : ~(Len(x.text) < MIN_TEXT)} }
ScrapedPages == PagesOf(Extracted)

\* The results scrapesite can resolve to: every URL is fetched at most once
\* (the visited set), and any fetch may fail, so a result is a list of pages
\* with pairwise distinct URLs, possibly empty.  Two results that differ
\* only in the order of the pages are represented by one of them.
ScrapeOutcomes ==
  {<<>>}
    \cup {<<p>> : p \in ScrapedPages}
    \cup {<<p, q>> : p \in {x \in ScrapedPages : x.url = UrlRoot},
                     q \in {x \in ScrapedPages : x.url = UrlAbout}}

\* The sets of documents one crawl can fetch and extract, and what scrapesite
\* then resolves to: fetched tells whether any document was fetched, pages is
\* the list returned.
FetchSets == {docs \in SUBSET Extracted : \A d, e \in docs : d.url = e.url => d = e}
CrawlResults ==
  UNION { { [fetched |-> docs # {}, pages |-> o] :
              o \in {x \in ScrapeOutcomes : Range(x) = PagesOf(docs)} } : docs \in FetchSets }

(***************************************************************************)
(* rag.ts: extractFactsObject.  The texts above hold no digit, no "@", no  *)
(* "hours" and no owner/founder/operator/ceo, so phones, emails,           *)
(* addresses, hours and the owner are empty; of the service patterns the   *)
(* texts can only match the plain phrases listed here.                     *)
(***************************************************************************)
PatWebApplication == <<"w", "e", "b", " ", "a", "p", "p", "l", "i", "c", "a", "t", "i", "o", "n">>
PatGoogleWorkspace == <<"g", "o", "o", "g", "l", "e", " ", "w", "o", "r", "k", "s", "p", "a", "c", "e">>
PatPhotography == <<"p", "h", "o", "t", "o", "g", "r", "a", "p", "h", "y">>

serviceCanon ==
  << [label |-> "Web application development", pat |-> PatWebApplication],
     [label |-> "Google Workspace", pat |-> PatGoogleWorkspace],
     [label |-> "Photography", pat |-> PatPhotography] >>

RECURSIVE MatchedServices(_, _)
MatchedServices(text, k) ==
  IF k > Len(serviceCanon) THEN <<>>
  ELSE (IF Includes(ToLower(text), serviceCanon[k].pat)
          THEN <<serviceCanon[k].label>> ELSE <<>>)
       \o MatchedServices(text, k + 1)

ExtractFactsObject(pages) ==
  LET text == Join([i \in DOMAIN pages |-> pages[i].title \o <<"\n">> \o pages[i].content],
                   <<"\n", "\n">>)
      services == MatchedServices(text, 1)
  IN [ownerName |-> "null", ownerTitle |-> "null", phones |-> <<>>, emails |-> <<>>,
      addresses |-> <<>>, hours |-> "null",
      services |-> SubSeq(services, 1, Min(Len(services), 12))]

(***************************************************************************)
(* db.ts: the three tables, as sets of rows.                               *)
(*   rag_chunks  PRIMARY KEY (domain, url, chunk_id)                       *)
(*   rag_meta    PRIMARY KEY (domain)                                      *)
(*   site_facts  PRIMARY KEY (domain)                                      *)
(* datetime('now') is the value of the clock when the statement runs.      *)
(***************************************************************************)
\* A replace that forgets the delete.
DeleteChunksNothing(chunks, domain) == chunks

\* DELETE FROM rag_chunks WHERE domain = ?
DeleteChunks(chunks, domain) == {r \in chunks : r.domain # domain}

\* INSERT INTO rag_chunks ...: fails on a primary-key conflict.
InsertConflicts(chunks, row) ==
  \E r \in chunks : r.domain = row.domain /\ r.url = row.url /\ r.chunkId = row.chunkId

\* INSERT INTO rag_meta ... ON CONFLICT(domain) DO UPDATE ...
UpsertMeta(meta, row) == {m \in meta : m.domain # row.domain} \cup {row}

\* INSERT INTO site_facts ... ON CONFLICT(domain) DO UPDATE ...
PutSiteFacts(facts, domain, data) ==
  {f \in facts : f.domain # domain} \cup {[domain |-> domain, data |-> data]}

\* The statements the transaction callback of replaceRagChunks issues, in
\* order: the delete, one insert per chunk of every page, the meta upsert.
RECURSIVE PageInserts(_, _, _, _)
PageInserts(domain, page, i, now) ==
  IF i >= Len(page.chunks) THEN <<>>
  ELSE << [op |-> "insert",
           row |-> [domain |-> domain, url |-> page.url,
                    title |-> IF page.title = <<>> THEN Untitled ELSE page.title,
                    chunkId |-> i, content |-> page.chunks[i + 1], updatedAt |-> now]] >>
       \o PageInserts(domain, page, i + 1, now)

RECURSIVE AllInserts(_, _, _)
AllInserts(domain, pages, now) ==
  IF pages = <<>> THEN <<>>
  ELSE PageInserts(domain, Head(pages), 0, now) \o AllInserts(domain, Tail(pages), now)

ReplaceStatements(domain, siteName, pages, now) ==
  LET inserts == AllInserts(domain, pages, now)
  IN << [op |-> "delete"] >> \o inserts
       \o << [op |-> "upsert",
              row |-> [domain |-> domain, siteName |-> siteName, pageCount |-> Len(pages),
                       chunkCount |-> Len(inserts), indexedAt |-> now]] >>

\* Runs statements k.. of a transaction on the working copy st; the
\* statement numbered failAt throws (an I/O error of the store; 0: none), and
\* so does an insert that hits the primary key.
RECURSIVE RunStatements(_, _, _, _, _)
RunStatements(stmts, k, st, domain, failAt) ==
  IF k > Len(stmts) THEN [threw |-> FALSE, chunks |-> st.chunks, meta |-> st.meta]
  ELSE IF k = failAt THEN [threw |-> TRUE, chunks |-> st.chunks, meta |-> st.meta]
  ELSE LET s == stmts[k] IN
    CASE s.op = "delete" ->
           RunStatements(stmts, k + 1,
                         [st EXCEPT !.chunks = DeleteChunks(st.chunks, domain)], domain, failAt)
      [] s.op = "insert" ->
           IF InsertConflicts(st.chunks, s.row)
             THEN [threw |-> TRUE, chunks |-> st.chunks, meta |-> st.meta]
             ELSE RunStatements(stmts, k + 1,
                                [st EXCEPT !.chunks = st.chunks \cup {s.row}], domain, failAt)
      [] s.op = "upsert" ->
           RunStatements(stmts, k + 1,
                         [st EXCEPT !.meta = UpsertMeta(st.meta, s.row)], domain, failAt)

\* A transaction wrapper that rethrows without ROLLBACK.
TransactionNoRollback(db, stmts, domain, failAt) == RunStatements(stmts, 1, db, domain, failAt)

\* database.transaction(fn)(): BEGIN, fn, COMMIT; when fn throws, ROLLBACK
\* and the exception is rethrown.
Transaction(db, stmts, domain, failAt) ==
  LET ran == RunStatements(stmts, 1, db, domain, failAt)
  IN IF ran.threw THEN [threw |-> TRUE, chunks |-> db.chunks, meta |-> db.meta]
     ELSE ran

\* A replaceRagChunks that runs its statements outside any transaction.
ReplaceRagChunksUnwrapped(db, domain, siteName, pages, now, failAt) ==
  LET stmts == ReplaceStatements(domain, siteName, pages, now)
      done == RunStatements(stmts, 1, db, domain, failAt)
  IN [threw |-> done.threw, chunks |-> done.chunks, meta |-> done.meta,
      pageCount |-> Len(pages), chunkCount |-> Len(stmts) - 2]

\* replaceRagChunks(domain, siteName, pages): db is [chunks, meta].
ReplaceRagChunks(db, domain, siteName, pages, now, failAt) ==
  LET stmts == ReplaceStatements(domain, siteName, pages, now)
      done == Transaction(db, stmts, domain, failAt)
  IN [threw |-> done.threw, chunks |-> done.chunks, meta |-> done.meta,
      pageCount |-> Len(pages), chunkCount |-> Len(stmts) - 2]

\* The characters of the model in ASCII order: BINARY collation compares
\* strings byte by byte.
Ascii == <<"\t", "\n", " ", "(", ")", "-", ".", "/",
           "0", "1", "2", "3", "4", "5", "6", "7", "8", "9", ":",
           "A", "B", "C", "D", "E", "F", "G", "H", "I", "J", "K", "L", "M",
           "N", "O", "P", "Q", "R", "S", "T", "U", "V", "W", "X", "Y", "Z", "[", "]",
           "a", "b", "c", "d", "e", "f", "g", "h", "i", "j", "k", "l", "m",
           "n", "o", "p", "q", "r", "s", "t", "u", "v", "w", "x", "y", "z">>

CharCode(c) == CHOOSE i \in DOMAIN Ascii : Ascii[i] = c

\* a < b byte by byte, the strings agreeing before position i.
RECURSIVE StrLessFrom(_, _, _)
StrLessFrom(a, b, i) ==
  IF i > Len(b) THEN FALSE
  ELSE IF i > Len(a) THEN TRUE
  ELSE IF a[i] = b[i] THEN StrLessFrom(a, b, i + 1)
  ELSE CharCode(a[i]) < CharCode(b[i])
StrLess(a, b) == StrLessFrom(a, b, 1)

\* ORDER BY url, chunk_id
RowBefore(r, q) == IF r.url = q.url THEN r.chunkId < q.chunkId ELSE StrLess(r.url, q.url)

RECURSIVE OrderRows(_)
OrderRows(rows) ==
  IF rows = {} THEN <<>>
  ELSE LET first == CHOOSE r \in rows : \A q \in rows \ {r} : RowBefore(r, q)
       IN <<first>> \o OrderRows(rows \ {first})

\* getRagChunks(domain)
GetRagChunks(chunks, domain) == OrderRows({r \in chunks : r.domain = domain})

\* getRagMeta(domain): the rows of the domain (none: null).
GetRagMeta(meta, domain) == {m \in meta : m.domain = domain}

(***************************************************************************)
(* rag.ts: buildRagIndex and ensureRagIndex                                *)
(***************************************************************************)
ErrNoPages == "RAG bootstrap failed: no pages were scraped"
ErrNoChunks == "RAG bootstrap failed: pages were scraped but no chunks were generated"
ErrStoreReplace == "replaceRagChunks: store write failed"
ErrStoreFacts == "putSiteFacts: store write failed"
ErrZero == "RAG index has zero chunks."

\* pages.map(p => ({url, title: p.title || "Untitled", chunks: chunkText(p.content)}))
PreparedPages(pages) ==
  [i \in DOMAIN pages |->
     [url |-> pages[i].url,
      title |-> IF pages[i].title = <<>> THEN Untitled ELSE pages[i].title,
      chunks |-> ChunkText(pages[i].content)]]

\* PreparedPages and ExtractFactsObject of every result of scrapesite,
\* computed once.
PreparedOf == [o \in ScrapeOutcomes |-> PreparedPages(o)]
FactsOf == [o \in ScrapeOutcomes |-> ExtractFactsObject(o)]

\* A buildRagIndex without the `if (!pages.length) throw` of its second line.
BuildRagIndexNoPagesCheck(db, domain, siteName, pages, now, failAt, factsFail) ==
  LET stats == ReplaceRagChunks([chunks |-> db.chunks, meta |-> db.meta], domain, siteName,
                                PreparedOf[pages], now, failAt)
      replaced == [chunks |-> stats.chunks, meta |-> stats.meta, facts |-> db.facts,
                   pageCount |-> stats.pageCount, chunkCount |-> stats.chunkCount]
  IN IF stats.threw THEN [err |-> ErrStoreReplace] @@ replaced
     ELSE IF stats.chunkCount = 0 THEN [err |-> ErrNoChunks] @@ replaced
     ELSE IF factsFail THEN [err |-> ErrStoreFacts] @@ replaced
     ELSE [err |-> ""] @@
          [replaced EXCEPT !.facts = PutSiteFacts(db.facts, domain, FactsOf[pages])]

\* A buildRagIndex that tests `!pages.length` only after replaceRagChunks.
BuildRagIndexChecksPagesLate(db, domain, siteName, pages, now, failAt, factsFail) ==
  LET stats == ReplaceRagChunks([chunks |-> db.chunks, meta |-> db.meta], domain, siteName,
                                PreparedOf[pages], now, failAt)
      replaced == [chunks |-> stats.chunks, meta |-> stats.meta, facts |-> db.facts,
                   pageCount |-> stats.pageCount, chunkCount |-> stats.chunkCount]
  IN IF stats.threw THEN [err |-> ErrStoreReplace] @@ replaced
     ELSE IF Len(pages) = 0 THEN [err |-> ErrNoPages] @@ replaced
     ELSE IF stats.chunkCount = 0 THEN [err |-> ErrNoChunks] @@ replaced
     ELSE IF factsFail THEN [err |-> ErrStoreFacts] @@ replaced
     ELSE [err |-> ""] @@
          [replaced EXCEPT !.facts = PutSiteFacts(db.facts, domain, FactsOf[pages])]

\* The part of buildRagIndex that runs, without a further await, once
\* scrapesite has resolved to pages.  db is [chunks, meta, facts]; failAt is
\* the statement of the replace transaction that fails (0: none) and
\* factsFail tells whether the site_facts write fails.  err = "" is a normal
\* return, anything else the message of the Error thrown; chunks, meta and
\* facts are the tables as the call leaves them.
BuildRagIndex(db, domain, siteName, pages, now, failAt, factsFail) ==
  LET stats == ReplaceRagChunks([chunks |-> db.chunks, meta |-> db.meta], domain, siteName,
                                PreparedOf[pages], now, failAt)
      unchanged == [chunks |-> db.chunks, meta |-> db.meta, facts |-> db.facts,
                    pageCount |-> 0, chunkCount |-> 0]
      replaced == [chunks |-> stats.chunks, meta |-> stats.meta, facts |-> db.facts,
                   pageCount |-> stats.pageCount, chunkCount |-> stats.chunkCount]
  IN IF Len(pages) = 0 THEN [err |-> ErrNoPages] @@ unchanged
     ELSE IF stats.threw THEN [err |-> ErrStoreReplace] @@ replaced
     ELSE IF stats.chunkCount = 0 THEN [err |-> ErrNoChunks] @@ replaced
     ELSE IF factsFail THEN [err |-> ErrStoreFacts] @@ replaced
     ELSE [err |-> ""] @@
          [replaced EXCEPT !.facts = PutSiteFacts(db.facts, domain, FactsOf[pages])]

\* An ensureRagIndex test that forgets `!force`.
UseCachedIgnoringForce(force, metaRows) == \E m \in metaRows : m.chunkCount > 0

\* The test of ensureRagIndex: !force && meta && meta.chunkCount > 0.
UseCached(force, metaRows) ==
  ~force /\ \E m \in metaRows : m.chunkCount > 0

(***************************************************************************)
(* rag.ts: the retriever                                                   *)
(***************************************************************************)
HttpPrefix == <<"h", "t", "t", "p", ":", "/", "/">>
HttpsPrefix == <<"h", "t", "t", "p", "s", ":", "/", "/">>

\* The first position at or after i that holds whitespace (Len(s) + 1: none).
RECURSIVE RunEnd(_, _)
RunEnd(s, i) == IF i > Len(s) \/ s[i] \in SpaceChars THEN i ELSE RunEnd(s, i + 1)

\* The length of the match of /https?:\/\/[^\s]+/ at position i (0: none).
UrlMatchLen(s, i) ==
  LET after == IF OccursAt(s, HttpsPrefix, i) THEN i + Len(HttpsPrefix)
               ELSE IF OccursAt(s, HttpPrefix, i) THEN i + Len(HttpPrefix)
               ELSE 0
  IN IF after = 0 \/ RunEnd(s, after) = after THEN 0 ELSE RunEnd(s, after) - i

\* .replace(/https?:\/\/[^\s]+/g, " ")
RECURSIVE StripUrls(_, _)
StripUrls(s, i) ==
  IF i > Len(s) THEN <<>>
  ELSE IF UrlMatchLen(s, i) > 0 THEN <<" ">> \o StripUrls(s, i + UrlMatchLen(s, i))
  ELSE <<s[i]>> \o StripUrls(s, i + 1)

\* .replace(/[^a-z0-9\s]/g, " ")
StripPunctuation(s) ==
  [i \in DOMAIN s |->
     IF s[i] \in Range(LowerChars) \cup DigitChars \cup SpaceChars THEN s[i] ELSE " "]

\* The first position at or after i that holds no whitespace.
RECURSIVE SkipSpaces(_, _)
SkipSpaces(s, i) == IF i > Len(s) \/ s[i] \notin SpaceChars THEN i ELSE SkipSpaces(s, i + 1)

\* .split(/\s+/): the maximal runs between whitespace; an empty string
\* stands before leading and after trailing whitespace.
RECURSIVE SplitSpaces(_, _, _)
SplitSpaces(s, i, word) ==
  IF i > Len(s) THEN <<word>>
  ELSE IF s[i] \in SpaceChars
    THEN <<word>> \o SplitSpaces(s, SkipSpaces(s, i), <<>>)
    ELSE SplitSpaces(s, i + 1, Append(word, s[i]))

\* .filter(w => w.length > 2)
RECURSIVE LongWords(_)
LongWords(ws) ==
  IF ws = <<>> THEN <<>>
  ELSE (IF Len(Head(ws)) > 2 THEN <<Head(ws)>> ELSE <<>>) \o LongWords(Tail(ws))

Tokenize(text) ==
  LongWords(SplitSpaces(StripPunctuation(StripUrls(ToLower(text), 1)), 1, <<>>))

\* The contribution of one query term to the score of a chunk.
\* Every position at which the term matches, overlapping or not.
MatchCount(hay, term) == Cardinality({i \in 1..Len(hay) : OccursAt(hay, term, i)})
TermScoreOverlapping(content, title, url, term) ==
  LET hay == ToLower(title \o <<" ">> \o url \o <<" ">> \o content)
      occurrences == MatchCount(hay, term)
  IN IF term = <<>> THEN 0
     ELSE (IF occurrences > 0 THEN occurrences ELSE 0)
          + (IF Includes(ToLower(title), term) THEN 4 ELSE 0)
          + (IF Includes(ToLower(url), term) THEN 3 ELSE 0)

TermScore(content, title, url, term) ==
  LET hay == ToLower(title \o <<" ">> \o url \o <<" ">> \o content)
      occurrences == SplitCount(hay, term)
  IN IF term = <<>> THEN 0
     ELSE (IF occurrences > 0 THEN occurrences ELSE 0)
          + (IF Includes(ToLower(title), term) THEN 4 ELSE 0)
          + (IF Includes(ToLower(url), term) THEN 3 ELSE 0)

RECURSIVE ScoreChunk(_, _, _, _)
ScoreChunk(content, title, url, queryTerms) ==
  IF queryTerms = <<>> THEN 0
  ELSE TermScore(content, title, url, Head(queryTerms))
       + ScoreChunk(content, title, url, Tail(queryTerms))

\* scored.sort((a, b) => b.score - a.score): descending by score; the sort
\* is stable, so equal scores keep their order.  a goes before b when the
\* comparator is negative.
\* A comparator with its operands swapped.
GoesBeforeAscending(a, b) == a.score - b.score < 0

GoesBeforeOrTie(a, b) == b.score - a.score <= 0
GoesBefore(a, b) == b.score - a.score < 0

RECURSIVE InsertSorted(_, _)
InsertSorted(sorted, x) ==
  IF sorted = <<>> THEN <<x>>
  ELSE IF GoesBefore(x, Head(sorted)) THEN <<x>> \o sorted
  ELSE <<Head(sorted)>> \o InsertSorted(Tail(sorted), x)

RECURSIVE SortByScore(_)
SortByScore(xs) ==
  IF xs = <<>> THEN <<>>
  ELSE InsertSorted(SortByScore(SubSeq(xs, 1, Len(xs) - 1)), xs[Len(xs)])

\* scored.filter((s, i) => i < topK && (s.score > 0 || i < 2)), i from 0.
RECURSIVE SelectTopPositiveOnly(_, _, _)
SelectTopPositiveOnly(scored, i, topK) ==
  IF i >= Len(scored) THEN <<>>
  ELSE (IF i < topK /\ scored[i + 1].score > 0 THEN <<scored[i + 1]>> ELSE <<>>)
       \o SelectTopPositiveOnly(scored, i + 1, topK)

RECURSIVE SelectTop(_, _, _)
SelectTop(scored, i, topK) ==
  IF i >= Len(scored) THEN <<>>
  ELSE (IF i < topK /\ (scored[i + 1].score > 0 \/ i < 2) THEN <<scored[i + 1]>> ELSE <<>>)
       \o SelectTop(scored, i + 1, topK)

\* `--- ${title} (${url}) [chunk ${chunkId}] ---\n${content}`
Entry(chunk) ==
  <<"-", "-", "-", " ">> \o chunk.title \o <<" ", "(">> \o chunk.url
    \o <<")", " ", "[", "c", "h", "u", "n", "k", " ">> \o Digits(chunk.chunkId)
    \o <<"]", " ", "-", "-", "-", "\n">> \o chunk.content

\* The for loop over selected, from its k-th element with `total` so far:
\* the chunks whose entries are pushed.
RECURSIVE TakeWithin(_, _, _, _)
TakeWithin(selected, k, total, maxChars) ==
  IF k > Len(selected) THEN <<>>
  ELSE IF total + Len(Entry(selected[k])) > maxChars THEN <<>>
  ELSE <<selected[k]>>
       \o TakeWithin(selected, k + 1, total + Len(Entry(selected[k])), maxChars)

\* Array.from(new Set(urls)): the distinct urls in order of first insertion.
RECURSIVE DistinctUrls(_, _)
DistinctUrls(chunks, seen) ==
  IF chunks = <<>> THEN <<>>
  ELSE IF Head(chunks).url \in seen THEN DistinctUrls(Tail(chunks), seen)
  ELSE <<Head(chunks).url>> \o DistinctUrls(Tail(chunks), seen \cup {Head(chunks).url})

\* retrieveRagContext, given the rows getRagChunks(domain) returned.
\* ranked (the sorted array) and used (the chunks whose entries were pushed)
\* are exposed next to the fields of the returned object.
RetrieveRagContext(rows, userQuery, topK, maxChars) ==
  IF rows = <<>>
    THEN [context |-> <<>>, sources |-> <<>>, bestScore |-> 0, ranked |-> <<>>, used |-> <<>>]
    ELSE
      LET queryTerms == Tokenize(userQuery)
          scored == SortByScore(
            [i \in DOMAIN rows |->
               [url |-> rows[i].url, title |-> rows[i].title, chunkId |-> rows[i].chunkId,
                content |-> rows[i].content,
                score |-> ScoreChunk(rows[i].content, rows[i].title, rows[i].url, queryTerms)]])
          used == TakeWithin(SelectTop(scored, 0, topK), 1, 0, maxChars)
      IN [context |-> Join([i \in DOMAIN used |-> Entry(used[i])], <<"\n", "\n">>),
          sources |-> DistinctUrls(used, {}),
          bestScore |-> scored[1].score,
          ranked |-> scored,
          used |-> used]

(***************************************************************************)
(* scraper: URL normalisation, the seed queue, the crawled site            *)
(***************************************************************************)

CONCURRENCY == 3

\* The position of the first occurrence of one of the characters at or after
\* i (Len(s) + 1: none).
RECURSIVE FirstOf(_, _, _)
FirstOf(s, chars, i) == IF i > Len(s) \/ s[i] \in chars THEN i ELSE FirstOf(s, chars, i + 1)

\* The position of the last occurrence of the character (0: none).
RECURSIVE LastOf(_, _, _)
LastOf(s, char, i) == IF i = 0 \/ s[i] = char THEN i ELSE LastOf(s, char, i - 1)

\* new URL(href, base) for the hrefs of the site: an absolute http URL
\* stands for itself, a path that begins with "/" is put behind the origin
\* of base, anything else does not parse (<<>>).
OriginEnd(u) == FirstOf(u, {"/"}, Len(HttpPrefix) + 1) - 1
Origin(u) == SubSeq(u, 1, OriginEnd(u))
Pathname(u) == LET rest == SubSeq(u, OriginEnd(u) + 1, Len(u)) IN IF rest = <<>> THEN <<"/">> ELSE rest
Resolve(href, base) ==
  IF OccursAt(href, HttpPrefix, 1) /\ Len(href) > Len(HttpPrefix) THEN href
  ELSE IF href # <<>> /\ href[1] = "/" THEN Origin(base) \o href
  ELSE <<>>

\* u.hash = ""; u.search = "": the URL up to its first "?" or "#".
StripHashAndSearch(u) == SubSeq(u, 1, FirstOf(u, {"?", "#"}, 1) - 1)
SkipExtensions ==
  {<<"p", "n", "g">>,
   <<"j", "p", "g">>,
   <<"j", "p", "e", "g">>,
   <<"g", "i", "f">>,
   <<"s", "v", "g">>,
   <<"c", "s", "s">>,
   <<"j", "s">>,
   <<"p", "d", "f">>,
   <<"z", "i", "p">>,
   <<"i", "c", "o">>,
   <<"w", "o", "f", "f">>,
   <<"w", "o", "f", "f", "2">>,
   <<"t", "t", "f">>,
   <<"m", "p", "4">>,
   <<"m", "p", "3">>,
   <<"w", "e", "b", "p">>}

\* pathname.split(".").pop().toLowerCase()
Extension(pathname) == ToLower(SubSeq(pathname, LastOf(pathname, ".", Len(pathname)) + 1, Len(pathname)))

Null == <<>>

\* normUrl(href, base): the same-origin URL without hash and search, or Null.
NormUrlAnyOrigin(href, base) ==
  LET u == StripHashAndSearch(Resolve(href, base))
  IN IF u = <<>> THEN Null
     ELSE IF Extension(Pathname(u)) \in SkipExtensions THEN Null
     ELSE Origin(u) \o Pathname(u)

NormUrl(href, base) ==
  LET u == StripHashAndSearch(Resolve(href, base))
  IN IF u = <<>> THEN Null
     ELSE IF Origin(u) # Origin(base) THEN Null
     ELSE IF Extension(Pathname(u)) \in SkipExtensions THEN Null
     ELSE Origin(u) \o Pathname(u)

priorityPaths ==
  <<<<"/">>,
    <<"/", "a", "b", "o", "u", "t">>,
    <<"/", "a", "b", "o", "u", "t", "/">>,
    <<"/", "a", "b", "o", "u", "t", "-", "u", "s">>,
    <<"/", "a", "b", "o", "u", "t", "-", "u", "s", "/">>,
    <<"/", "c", "o", "n", "t", "a", "c", "t">>,
    <<"/", "c", "o", "n", "t", "a", "c", "t", "/">>,
    <<"/", "c", "o", "n", "t", "a", "c", "t", "-", "u", "s">>,
    <<"/", "c", "o", "n", "t", "a", "c", "t", "-", "u", "s", "/">>,
    <<"/", "s", "e", "r", "v", "i", "c", "e", "s">>,
    <<"/", "s", "e", "r", "v", "i", "c", "e", "s", "/">>,
    <<"/", "w", "e", "b", "-", "d", "e", "v", "e", "l", "o", "p", "m", "e", "n", "t", "-", "d", "e", "s", "i", "g", "n", "/">>>>

\* Array.from(seeds) of a Set filled in this order: the distinct non-null
\* normalised hrefs in order of first insertion.
RECURSIVE SeedsFrom(_, _, _)
SeedsFrom(hrefs, baseDomain, seeds) ==
  IF hrefs = <<>> THEN seeds
  ELSE LET n == NormUrl(Head(hrefs), baseDomain)
       IN SeedsFrom(Tail(hrefs), baseDomain,
                    IF n # Null /\ n \notin Range(seeds) THEN Append(seeds, n) ELSE seeds)

\* SCRAPER_EXTRA_URLS, split and trimmed: what the operator listed.
extra ==
  <<<<"h", "t", "t", "p", ":", "/", "/", "b", ".", "c", "o", "/", "p", "r", "o", "m", "o">>,
    <<"/", "t", "e", "a", "m", "?", "x", "=", "1", "#", "s", "t", "a", "f", "f">>,
    <<"/", "b", "r", "o", "c", "h", "u", "r", "e", ".", "p", "d", "f">>>>

\* buildSeedQueue(baseDomain)
BuildSeedQueue(baseDomain) ==
  SeedsFrom(<<baseDomain>> \o priorityPaths \o extra, baseDomain, <<>>)

CorePatterns ==
  {<<"/", "a", "b", "o", "u", "t">>,
   <<"/", "a", "b", "o", "u", "t", "-", "u", "s">>,
   <<"/", "c", "o", "n", "t", "a", "c", "t">>,
   <<"/", "c", "o", "n", "t", "a", "c", "t", "-", "u", "s">>,
   <<"/", "s", "e", "r", "v", "i", "c", "e", "s">>}

\* /(\/about|\/about-us|\/contact|\/contact-us|\/services)(\/|$)/i.test(u)
IsCorePath(u) ==
  \E pat \in CorePatterns : \E i \in 1..Len(u) :
    /\ OccursAt(ToLower(u), pat, i)
    /\ i + Len(pat) = Len(u) + 1 \/ (i + Len(pat) <= Len(u) /\ u[i + Len(pat)] = "/")

\* The loop over discovered and queue.push(...core, ...rest): the links
\* matching the core pattern in order, then the others in order.
SelectLinks(links, wantCore) ==
  IF links = <<>> THEN <<>> ELSE SelectSeq(links, LAMBDA u : IsCorePath(u) = wantCore)
CoreFirstUnpartitioned(discovered) == discovered
CoreFirst(discovered) == SelectLinks(discovered, TRUE) \o SelectLinks(discovered, FALSE)

\* The site: besides the home page and the about page it serves a short
\* /blog page; every other URL is answered 404.
UrlBlog == SITE_DOMAIN \o <<"/", "b", "l", "o", "g">>
UrlTeam == SITE_DOMAIN \o <<"/", "t", "e", "a", "m">>
HrefsRoot ==
  <<<<"/", "b", "l", "o", "g", "#", "t", "o", "p">>,
    <<"/", "c", "o", "n", "t", "a", "c", "t", "-", "u", "s">>,
    <<"h", "t", "t", "p", ":", "/", "/", "b", ".", "c", "o", "/", "x">>,
    <<"/", "l", "o", "g", "o", ".", "P", "N", "G">>,
    <<"/", "a", "b", "o", "u", "t", "?", "r", "e", "f", "=", "h", "o", "m", "e">>>>
HrefsAbout ==
  <<<<"/", "t", "e", "a", "m">>,
    <<"/", "S", "e", "r", "v", "i", "c", "e", "s", "/">>,
    <<"/">>,
    <<"/", "b", "l", "o", "g">>>>
HrefsOf(url) == IF url = UrlRoot THEN HrefsRoot ELSE IF url = UrlAbout THEN HrefsAbout ELSE <<>>

\* What fetchPage and extractText can yield for a URL: a failure (network
\* error, timeout, status not ok, content type not text/html), or one of the
\* documents the site serves there with its <a href> values.
FetchFailed == [ok |-> FALSE]
SiteDocs ==
  Extracted \cup {[url |-> UrlBlog, title |-> <<>>, text |-> TextSoon]}
Responses(url) ==
  {FetchFailed}
    \cup {[ok |-> TRUE, title |-> d.title, text |-> d.text, links |-> HrefsOf(url)] :
            d \in {x \in SiteDocs : x.url = url}}

\* The <loc> values the site's sitemap can list: none (no sitemap), or two
\* pages, one of them twice, among a nested sitemap, an asset and a foreign
\* URL.
SitemapLocs ==
  {<<>>,
   <<<<"h", "t", "t", "p", ":", "/", "/", "a", ".", "c", "o", "/", "b", "l", "o", "g", "?", "p", "a", "g", "e", "=", "2">>,
     <<"h", "t", "t", "p", ":", "/", "/", "a", ".", "c", "o", "/", "p", "o", "s", "t", "-", "s", "i", "t", "e", "m", "a", "p", ".", "x", "m", "l">>,
     <<"h", "t", "t", "p", ":", "/", "/", "a", ".", "c", "o", "/", "a", "b", "o", "u", "t", "#", "t", "e", "a", "m">>,
     <<"h", "t", "t", "p", ":", "/", "/", "b", ".", "c", "o", "/", "p", "a", "r", "t", "n", "e", "r">>,
     <<"h", "t", "t", "p", ":", "/", "/", "a", ".", "c", "o", "/", "b", "l", "o", "g">>,
     <<"h", "t", "t", "p", ":", "/", "/", "a", ".", "c", "o", "/", "h", "e", "r", "o", ".", "w", "e", "b", "p">>>>}

SitemapSuffix == <<".", "x", "m", "l">>
SitemapWord == <<"s", "i", "t", "e", "m", "a", "p">>

\* The loop over locs in fetchSitemapUrls and Array.from(new Set(out)): the
\* normalised locs that are not null and not themselves sitemaps, each once,
\* in order of first occurrence.  (A nested sitemap is queued for a fetch of
\* its own; the site serves none.)
RECURSIVE SitemapUrlsFrom(_, _, _)
SitemapUrlsFrom(locs, baseDomain, out) ==
  IF locs = <<>> THEN out
  ELSE LET n == NormUrl(Head(locs), baseDomain)
           nested == \/ OccursAt(n, SitemapSuffix, Len(n) - Len(SitemapSuffix) + 1)
                     \/ Includes(ToLower(n), SitemapWord)
       IN SitemapUrlsFrom(Tail(locs), baseDomain,
                          IF n # Null /\ ~nested /\ n \notin Range(out) THEN Append(out, n) ELSE out)

\* What fetchSitemapUrls(baseDomain) can resolve to.
SitemapResults == {SitemapUrlsFrom(locs, SITE_DOMAIN, <<>>) : locs \in SitemapLocs}

(***************************************************************************)
(* State                                                                   *)
(***************************************************************************)
VARIABLES
  ragChunks,          \* table rag_chunks
  ragMeta,            \* table rag_meta
  siteFacts,          \* table site_facts
  jobs,               \* the handler invocations in flight, by slot
  indexing,           \* server.ts: let indexing
  ragReady,           \* server.ts: let ragReady
  ragBootstrapError,  \* server.ts: let ragBootstrapError ("null": null)
  seenSiteIds,        \* resolver.ts: seenSiteIds
  lastNightlyRefreshDay,  \* server.ts: let lastNightlyRefreshDay
  retr,               \* the last direct call of retrieveRagContext and its result
  chunkCall,          \* the last direct call of chunkText and its result
  crawl               \* the scrapesite run under observation

vars == <<ragChunks, ragMeta, siteFacts, jobs, indexing, ragReady, ragBootstrapError,
          seenSiteIds, lastNightlyRefreshDay, retr, chunkCall, crawl>>
store == <<ragChunks, ragMeta, siteFacts>>
aside == <<chunkCall, crawl>>

\* The wall clock is followed for MaxClock days after the start; a time is
\* the number of its day.
MaxClock == 1

\* "idx" is the invocation that holds the indexing flag (POST /api/scrape or
\* refreshRag, kind "index"); "req" is a POST /api/prep or POST /api/chat
\* request (kind "prep" or "chat").
JobIds == {"idx", "req"}
SiteIds == {"", "site-1"}

\* pc: "idle"      no invocation in this slot
\*     "resolved"  after `await resolveSiteId(siteId)`
\*     "crawl"     inside `await scrapesite(domain)`: fetches are being issued
\*     "scraped"   scrapesite has resolved to job.pages (job.fetched: it had
\*                 fetched and extracted at least one document)
\*     "built"     buildRagIndex / ensureRagIndex has returned or thrown job.res
\*     "answered"  /api/chat has its status (412, or 200 with the rows
\*                 retrieveRagContext read in job.rows)
\*     "model"     /api/chat awaits answerWithContext
\* fault: which write of the rebuild a store failure hit ("none", "replace":
\* a statement of the replace transaction, "facts": the site_facts write).
NoRes == [err |-> "", built |-> FALSE, pageCount |-> 0, chunkCount |-> 0, indexedAt |-> 0]
IdleJob ==
  [pc |-> "idle", kind |-> "none", force |-> FALSE, fetched |-> FALSE, pages |-> <<>>, res |-> NoRes,
   fault |-> "none", status |-> 0, rows |-> <<>>, siteId |-> "", asked |-> FALSE, updated |-> FALSE]
NoRetr == [called |-> FALSE]
NoChunkCall == [called |-> FALSE]
NoCrawl == [pc |-> "idle"]
\* let lastNightlyRefreshDay = "": no day yet.
NoDay == -1

JobDomain(kind) == IF kind = "index" THEN SITE_DOMAIN ELSE MOCK_ID_DOMAIN
JobSiteName(kind) == IF kind = "index" THEN SITE_NAME ELSE MOCK_SITE_NAME

\* ensureRagIndex up to its first await: the cached answer, or the call of
\* buildRagIndex, which starts scrapesite.
EnsureRagIndex(kind, force, meta) ==
  LET rows == GetRagMeta(meta, JobDomain(kind))
  IN IF UseCached(force, rows)
       THEN LET m == CHOOSE m \in rows : TRUE
            IN [IdleJob EXCEPT !.pc = "built", !.kind = kind,
                  !.res = [err |-> "", built |-> FALSE, pageCount |-> m.pageCount,
                           chunkCount |-> m.chunkCount, indexedAt |-> m.indexedAt]]
       ELSE [IdleJob EXCEPT !.pc = "crawl", !.kind = kind]

Init ==
  /\ ragChunks = {}
  /\ ragMeta = {}
  /\ siteFacts = {}
  \* server.ts ends with `void refreshRag(SITE_DOMAIN, SITE_NAME, true)`, which
  \* runs up to the first fetch of scrapesite before the module has loaded.
  /\ jobs = [j \in JobIds |-> IF j = "idx" THEN EnsureRagIndex("index", TRUE, {}) ELSE IdleJob]
  /\ indexing = TRUE
  /\ ragReady = FALSE
  /\ ragBootstrapError = "null"
  /\ seenSiteIds = {}
  /\ lastNightlyRefreshDay = NoDay
  /\ retr = NoRetr
  /\ chunkCall = NoChunkCall
  /\ crawl = NoCrawl

\* The values a read of the wall clock can give: it never runs backwards,
\* so it is no earlier than any time already written down.
MaxOf(S) == CHOOSE x \in S : \A y \in S : y <= x
Now == MaxOf({0, lastNightlyRefreshDay} \cup {m.indexedAt : m \in ragMeta})..MaxClock

\* POST /api/scrape up to `await buildRagIndex(...)`; 409 when indexing.
ScrapeRequest ==
  /\ IF indexing
       THEN UNCHANGED <<jobs, indexing>>
       ELSE /\ indexing' = TRUE
            /\ jobs' = [jobs EXCEPT !["idx"] = [IdleJob EXCEPT !.pc = "crawl", !.kind = "index"]]
  /\ UNCHANGED <<store, ragReady, ragBootstrapError, seenSiteIds, lastNightlyRefreshDay, retr, aside>>

\* refreshRag(domain, siteName, force) up to the await of ensureRagIndex.
RefreshRag(force) ==
  IF indexing
    THEN UNCHANGED <<jobs, indexing>>
    ELSE /\ indexing' = TRUE
         /\ jobs' = [jobs EXCEPT !["idx"] = EnsureRagIndex("index", force, ragMeta)]

RetryTickIgnoringReady ==
  /\ IF ~indexing THEN RefreshRag(TRUE) ELSE UNCHANGED <<jobs, indexing>>
  /\ UNCHANGED <<store, ragReady, ragBootstrapError, seenSiteIds, lastNightlyRefreshDay, retr, aside>>

\* The 5-minute timer of startBootstrapRetry.
RetryTick ==
  /\ IF ~ragReady /\ ~indexing THEN RefreshRag(TRUE) ELSE UNCHANGED <<jobs, indexing>>
  /\ UNCHANGED <<store, ragReady, ragBootstrapError, seenSiteIds, lastNightlyRefreshDay, retr, aside>>

NightlyTickUnforced(now) ==
  /\ IF now # lastNightlyRefreshDay
       THEN /\ lastNightlyRefreshDay' = now
            /\ RefreshRag(FALSE)
       ELSE UNCHANGED <<jobs, indexing, lastNightlyRefreshDay>>
  /\ UNCHANGED <<store, ragReady, ragBootstrapError, seenSiteIds, retr, aside>>

\* The once-a-minute timer of startNightlyRefresh, on a minute in which
\* maybeRun reads 01:00 (on every other minute it does nothing).
NightlyTick(now) ==
  /\ IF now # lastNightlyRefreshDay
       THEN /\ lastNightlyRefreshDay' = now
            /\ RefreshRag(TRUE)
       ELSE UNCHANGED <<jobs, indexing, lastNightlyRefreshDay>>
  /\ UNCHANGED <<store, ragReady, ragBootstrapError, seenSiteIds, retr, aside>>

ResolveUpdatedOncePerProcess(siteId, seen) == IF seen = {} THEN TRUE ELSE MOCK_ID_UPDATED

\* resolveSiteId(siteId).updated, given the ids seen so far.
ResolveUpdated(siteId, seen) == IF siteId \notin seen THEN TRUE ELSE MOCK_ID_UPDATED

\* POST /api/prep up to the end of `await resolveSiteId(siteId)`; 400 when
\* the siteId is empty.
PrepRequest(siteId, force) ==
  /\ jobs["req"].pc = "idle"
  /\ IF siteId = ""
       THEN UNCHANGED <<jobs, seenSiteIds>>
       ELSE /\ seenSiteIds' = seenSiteIds \cup {siteId}
            /\ jobs' = [jobs EXCEPT !["req"] =
                 [IdleJob EXCEPT !.pc = "resolved", !.kind = "prep",
                    !.siteId = siteId, !.asked = force,
                    !.updated = ResolveUpdated(siteId, seenSiteIds),
                    !.force = force \/ ResolveUpdated(siteId, seenSiteIds)]]
  /\ UNCHANGED <<store, indexing, ragReady, ragBootstrapError, lastNightlyRefreshDay, retr, aside>>

\* POST /api/prep: the call of ensureRagIndex.
PrepEnsure ==
  /\ jobs["req"].pc = "resolved"
  /\ jobs["req"].kind = "prep"
  /\ jobs' = [jobs EXCEPT !["req"] = EnsureRagIndex("prep", jobs["req"].force, ragMeta)]
  /\ UNCHANGED <<store, indexing, ragReady, ragBootstrapError, seenSiteIds, lastNightlyRefreshDay, retr, aside>>

\* scrapesite resolves.
CrawlDone(j, crawled) ==
  /\ jobs[j].pc = "crawl"
  /\ jobs' = [jobs EXCEPT ![j].pc = "scraped", ![j].fetched = crawled.fetched,
                          ![j].pages = crawled.pages]
  /\ UNCHANGED <<store, indexing, ragReady, ragBootstrapError, seenSiteIds, lastNightlyRefreshDay, retr, aside>>

\* The store failures that can hit the writes of a rebuild of pages: none,
\* one statement of the replace transaction, or the site_facts write.
StatementCount ==
  [o \in ScrapeOutcomes |-> Len(ReplaceStatements(SITE_DOMAIN, SITE_NAME, PreparedOf[o], 0))]
Faults(pages) ==
  IF pages = <<>> THEN {[failAt |-> 0, factsFail |-> FALSE]}
  ELSE {[failAt |-> k, factsFail |-> FALSE] : k \in 0..StatementCount[pages]}
         \cup {[failAt |-> 0, factsFail |-> TRUE]}

\* The rest of buildRagIndex, and of ensureRagIndex when it was the caller
\* (indexedAt: new Date(), built: true).
BuildContinue(j, now, failAt, factsFail) ==
  /\ jobs[j].pc = "scraped"
  /\ \E out \in {BuildRagIndex([chunks |-> ragChunks, meta |-> ragMeta, facts |-> siteFacts],
                                 JobDomain(jobs[j].kind), JobSiteName(jobs[j].kind),
                                 jobs[j].pages, now, failAt, factsFail)} :
        /\ ragChunks' = out.chunks
        /\ ragMeta' = out.meta
        /\ siteFacts' = out.facts
        /\ jobs' = [jobs EXCEPT ![j].pc = "built", ![j].pages = <<>>,
                      ![j].fault = IF failAt > 0 THEN "replace"
                                   ELSE IF factsFail THEN "facts" ELSE "none",
                      ![j].res = IF out.err = ""
                                   THEN [err |-> "", built |-> TRUE, pageCount |-> out.pageCount,
                                         chunkCount |-> out.chunkCount, indexedAt |-> now]
                                   ELSE [NoRes EXCEPT !.err = out.err]]
  /\ UNCHANGED <<indexing, ragReady, ragBootstrapError, seenSiteIds, lastNightlyRefreshDay, retr, aside>>

HandlerReturnNoFinally(j) ==
  /\ jobs[j].pc = "built"
  /\ LET res == jobs[j].res
         ready == res.err = "" /\ res.chunkCount > 0
     IN /\ ragReady' = ready
        /\ ragBootstrapError' = IF res.err # "" THEN res.err
                                ELSE IF ready THEN "null" ELSE ErrZero
  /\ indexing' = IF jobs[j].kind = "index" /\ jobs[j].res.err = "" THEN FALSE ELSE indexing
  /\ jobs' = [jobs EXCEPT ![j] = IdleJob]
  /\ UNCHANGED <<store, seenSiteIds, lastNightlyRefreshDay, retr, aside>>

\* The continuation of the handler after its await: the try / catch /
\* finally of POST /api/scrape and refreshRag, the try / catch of /api/prep.
HandlerReturn(j) ==
  /\ jobs[j].pc = "built"
  /\ LET res == jobs[j].res
         ready == res.err = "" /\ res.chunkCount > 0
     IN /\ ragReady' = ready
        /\ ragBootstrapError' = IF res.err # "" THEN res.err
                                ELSE IF ready THEN "null" ELSE ErrZero
  /\ indexing' = IF jobs[j].kind = "index" THEN FALSE ELSE indexing
  /\ jobs' = [jobs EXCEPT ![j] = IdleJob]
  /\ UNCHANGED <<store, seenSiteIds, lastNightlyRefreshDay, retr, aside>>

\* POST /api/chat (and /api/chat/stream) through validateChatInput up to the
\* end of `await resolveSiteId(siteId)`; 400 when the siteId is empty.
ChatRequest(siteId) ==
  /\ jobs["req"].pc = "idle"
  /\ IF siteId = ""
       THEN UNCHANGED <<jobs, seenSiteIds>>
       ELSE /\ seenSiteIds' = seenSiteIds \cup {siteId}
            /\ jobs' = [jobs EXCEPT !["req"] =
                 [IdleJob EXCEPT !.pc = "resolved", !.kind = "chat", !.siteId = siteId,
                    !.updated = ResolveUpdated(siteId, seenSiteIds)]]
  /\ UNCHANGED <<store, indexing, ragReady, ragBootstrapError, lastNightlyRefreshDay, retr, aside>>

ChatAnswerWithoutIndexCheck ==
  /\ jobs["req"].pc = "resolved"
  /\ jobs["req"].kind = "chat"
  /\ jobs' = [jobs EXCEPT !["req"] =
        [@ EXCEPT !.pc = "answered", !.status = 200,
                  !.rows = GetRagChunks(ragChunks, MOCK_ID_DOMAIN)]]
  /\ UNCHANGED <<store, indexing, ragReady, ragBootstrapError, seenSiteIds, lastNightlyRefreshDay, retr, aside>>

\* POST /api/chat: 412 without a usable index, else retrieveRagContext, whose
\* only read of the store is getRagChunks(domain).
ChatAnswer ==
  /\ jobs["req"].pc = "resolved"
  /\ jobs["req"].kind = "chat"
  /\ LET ragMetaRows == GetRagMeta(ragMeta, MOCK_ID_DOMAIN)
     IN jobs' = [jobs EXCEPT !["req"] =
          IF ragMetaRows = {} \/ \E m \in ragMetaRows : m.chunkCount = 0
            THEN [@ EXCEPT !.pc = "answered", !.status = 412]
            ELSE [@ EXCEPT !.pc = "answered", !.status = 200,
                           !.rows = GetRagChunks(ragChunks, MOCK_ID_DOMAIN)]]
  /\ UNCHANGED <<store, indexing, ragReady, ragBootstrapError, seenSiteIds, lastNightlyRefreshDay, retr, aside>>

\* POST /api/chat: with the context retrieved and no canned reply chosen,
\* the handler awaits answerWithContext, the call of the language model.
ChatModelCall ==
  /\ jobs["req"].pc = "answered"
  /\ jobs["req"].status = 200
  /\ jobs' = [jobs EXCEPT !["req"] = [IdleJob EXCEPT !.pc = "model", !.kind = "chat", !.status = 200]]
  /\ UNCHANGED <<store, indexing, ragReady, ragBootstrapError, seenSiteIds, lastNightlyRefreshDay, retr, aside>>

\* POST /api/chat: the response is sent.
ChatReply ==
  /\ jobs["req"].pc \in {"answered", "model"}
  /\ jobs' = [jobs EXCEPT !["req"] = IdleJob]
  /\ UNCHANGED <<store, indexing, ragReady, ragBootstrapError, seenSiteIds, lastNightlyRefreshDay, retr, aside>>

Next ==
  \/ ScrapeRequest
  \/ RetryTick
  \/ \E now \in Now : NightlyTick(now)
  \/ \E siteId \in SiteIds, force \in BOOLEAN : PrepRequest(siteId, force)
  \/ PrepEnsure
  \/ \E siteId \in SiteIds : ChatRequest(siteId)
  \/ ChatAnswer
  \/ ChatModelCall
  \/ ChatReply
  \/ \E j \in JobIds, crawled \in CrawlResults : CrawlDone(j, crawled)
  \/ \E j \in JobIds, now \in Now :
       \E f \in Faults(jobs[j].pages) : BuildContinue(j, now, f.failAt, f.factsFail)
  \/ \E j \in JobIds : HandlerReturn(j)

Spec == Init /\ [][Next]_vars

(***************************************************************************)
(* The server with the rebuild that holds the indexing flag running on.    *)
(* Its crawl terminates (every fetch completes or times out), and the      *)
(* event loop runs the continuation of every settled await: CrawlDone and  *)
(* HandlerReturn of that rebuild are weakly fair.  The rest of             *)
(* buildRagIndex after the crawl is weakly fair too: that step is enabled  *)
(* exactly when the rebuild is at "scraped" and always leaves "scraped",   *)
(* so its weak fairness is the formula []<>(pc # "scraped"), written so.   *)
(***************************************************************************)
CrawlEnds == \E crawled \in CrawlResults : CrawlDone("idx", crawled)

RebuildRunsOn ==
  /\ WF_vars(CrawlEnds)
  /\ []<>(jobs["idx"].pc # "scraped")
  /\ WF_vars(HandlerReturn("idx"))

SpecFair == Spec /\ RebuildRunsOn

(***************************************************************************)
(* The resolver under requests for several sites: the server from its      *)
(* start, with /api/prep and /api/chat requests naming any of two site     *)
(* ids, and no timer tick or /api/scrape request.                          *)
(***************************************************************************)
ManySiteIds == SiteIds \cup {"site-2"}

NextSites ==
  \/ \E siteId \in ManySiteIds, force \in BOOLEAN : PrepRequest(siteId, force)
  \/ PrepEnsure
  \/ \E siteId \in ManySiteIds : ChatRequest(siteId)
  \/ ChatAnswer
  \/ ChatModelCall
  \/ ChatReply
  \/ \E j \in JobIds, crawled \in CrawlResults : CrawlDone(j, crawled)
  \/ \E j \in JobIds, now \in Now :
       \E f \in Faults(jobs[j].pages) : BuildContinue(j, now, f.failAt, f.factsFail)
  \/ \E j \in JobIds : HandlerReturn(j)

SpecSites == Init /\ [][NextSites]_vars

(***************************************************************************)
(* Retrieval on its own: retrieveRagContext(domain, userQuery, opts)       *)
(* called on every store the startup rebuild can leave behind, with the    *)
(* queries and options below.                                              *)
(***************************************************************************)
\* isLikelyOnTopic: the best score of a retrieval with topK 1 and maxChars
\* 1200 reaches the minimum topic score (RAG_MIN_TOPIC_SCORE, default 2).
TOPIC_TOP_K == 1
TOPIC_MAX_CHARS == 1200
MIN_TOPIC_SCORE == 2
IsLikelyOnTopicFlipped(rows, message) ==
  RetrieveRagContext(rows, message, TOPIC_TOP_K, TOPIC_MAX_CHARS).bestScore <= MIN_TOPIC_SCORE
IsLikelyOnTopic(rows, message) ==
  RetrieveRagContext(rows, message, TOPIC_TOP_K, TOPIC_MAX_CHARS).bestScore >= MIN_TOPIC_SCORE

Chars(str) ==
  CASE str = "drain" -> <<"d", "r", "a", "i", "n">>
    [] str = "DRAIN" -> <<"D", "R", "A", "I", "N">>
    [] str = "repair" -> <<"r", "e", "p", "a", "i", "r">>
    [] str = "photography" -> PatPhotography
    [] str = "plication" -> <<"p", "l", "i", "c", "a", "t", "i", "o", "n">>
    [] str = "we" -> <<"w", "e">>
    [] str = "acme" -> <<"a", "c", "m", "e">>
    [] str = "about" -> <<"a", "b", "o", "u", "t">>
    [] str = "web team" -> <<"w", "e", "b", " ", "t", "e", "a", "m">>
    [] str = "zebra" -> <<"z", "e", "b", "r", "a">>
    [] str = "Acme" -> <<"A", "c", "m", "e">>
    [] str = "me" -> <<"m", "e">>
    [] str = "dra" -> <<"d", "r", "a">>
    [] str = "ana" -> <<"a", "n", "a">>
    [] str = "ban" -> <<"b", "a", "n">>
    [] str = "aaa" -> <<"a", "a", "a">>
    [] str = "zeb" -> <<"z", "e", "b">>
    [] str = "banana bandana" -> <<"b", "a", "n", "a", "n", "a", " ", "b", "a", "n", "d", "a", "n", "a">>
    [] str = "aaaaa aaa" -> <<"a", "a", "a", "a", "a", " ", "a", "a", "a">>
    [] str = "Banana" -> <<"B", "a", "n", "a", "n", "a">>
    [] str = "http://a.co/banana" -> <<"h", "t", "t", "p", ":", "/", "/", "a", ".", "c", "o", "/", "b", "a", "n", "a", "n", "a">>

Queries ==
  {Chars(q) : q \in {"drain", "DRAIN", "repair", "photography", "plication", "we", "acme",
                     "about", "web team", "zebra", "Acme", "me", "dra"}}
TopKs == {0, 1, 2, TOP_K}
MaxCharsChoices == {0, 62, 115, 124, MAX_CONTEXT_CHARS}

\* The store and the flags once the startup refreshRag has returned, having
\* scraped `pages` without a store failure.
AfterStartup(pages) ==
  LET out == BuildRagIndex([chunks |-> {}, meta |-> {}, facts |-> {}], SITE_DOMAIN, SITE_NAME,
                           pages, 0, 0, FALSE)
  IN /\ ragChunks = out.chunks
     /\ ragMeta = out.meta
     /\ siteFacts = out.facts
     /\ ragReady = (out.err = "" /\ out.chunkCount > 0)
     /\ ragBootstrapError = IF out.err # "" THEN out.err ELSE "null"

InitRetr ==
  /\ \E pages \in ScrapeOutcomes : AfterStartup(pages)
  /\ jobs = [j \in JobIds |-> IdleJob]
  /\ indexing = FALSE
  /\ seenSiteIds = {}
  /\ lastNightlyRefreshDay = NoDay
  /\ retr = NoRetr
  /\ chunkCall = NoChunkCall
  /\ crawl = NoCrawl

\* retrieveRagContext is synchronous: a call starts when none is running.
Retrieve(userQuery, topK, maxChars) ==
  /\ retr = NoRetr
  /\ retr' = [called |-> TRUE, query |-> userQuery, topK |-> topK, maxChars |-> maxChars,
              rows |-> GetRagChunks(ragChunks, SITE_DOMAIN),
              out |-> RetrieveRagContext(GetRagChunks(ragChunks, SITE_DOMAIN), userQuery,
                                         topK, maxChars)]
  /\ UNCHANGED <<store, jobs, indexing, ragReady, ragBootstrapError, seenSiteIds,
                 lastNightlyRefreshDay, aside>>

\* isLikelyOnTopic(domain, message), synchronous like the retrieval it runs;
\* the record keeps the retrieval it made and the boolean it returned.
TopicCheck(message) ==
  /\ retr = NoRetr
  /\ \E rows \in {GetRagChunks(ragChunks, SITE_DOMAIN)} :
       retr' = [called |-> TRUE, query |-> message, topK |-> TOPIC_TOP_K,
                maxChars |-> TOPIC_MAX_CHARS, rows |-> rows,
                out |-> RetrieveRagContext(rows, message, TOPIC_TOP_K, TOPIC_MAX_CHARS),
                onTopic |-> IsLikelyOnTopic(rows, message)]
  /\ UNCHANGED <<store, jobs, indexing, ragReady, ragBootstrapError, seenSiteIds,
                 lastNightlyRefreshDay, aside>>

\* The caller has taken the returned object.
RetrieveReturn ==
  /\ retr.called
  /\ retr' = NoRetr
  /\ UNCHANGED <<store, jobs, indexing, ragReady, ragBootstrapError, seenSiteIds,
                 lastNightlyRefreshDay, aside>>

\* The arguments scoreChunk is applied to on its own: contents and titles in
\* which a term overlaps itself, and term lists with a repeated term.
ScoreContents == {Chars("banana bandana"), Chars("aaaaa aaa"), TextAbout}
ScoreTitles == {Chars("Banana"), <<>>}
ScoreUrls == {UrlAbout, Chars("http://a.co/banana")}
ScoreTerms ==
  {<<>>, <<Chars("ana")>>, <<Chars("ana"), Chars("ana")>>, <<Chars("ban"), Chars("ana")>>,
   <<Chars("aaa")>>, <<Chars("about"), Chars("zeb")>>, <<Chars("zeb")>>}

\* scoreChunk(content, title, url, queryTerms), synchronous.
Score(content, title, url, queryTerms) ==
  /\ retr = NoRetr
  /\ retr' = [called |-> FALSE, scored |-> TRUE, content |-> content, title |-> title,
              url |-> url, queryTerms |-> queryTerms,
              score |-> ScoreChunk(content, title, url, queryTerms)]
  /\ UNCHANGED <<store, jobs, indexing, ragReady, ragBootstrapError, seenSiteIds,
                 lastNightlyRefreshDay, aside>>

\* The caller has taken the score.
ScoreReturn ==
  /\ "scored" \in DOMAIN retr
  /\ retr' = NoRetr
  /\ UNCHANGED <<store, jobs, indexing, ragReady, ragBootstrapError, seenSiteIds,
                 lastNightlyRefreshDay, aside>>

NextRetr ==
  \/ \E userQuery \in Queries, topK \in TopKs, maxChars \in MaxCharsChoices :
       Retrieve(userQuery, topK, maxChars)
  \/ \E message \in Queries : TopicCheck(message)
  \/ \E content \in ScoreContents, title \in ScoreTitles, url \in ScoreUrls,
        queryTerms \in ScoreTerms : Score(content, title, url, queryTerms)
  \/ ScoreReturn
  \/ RetrieveReturn

SpecRetr == InitRetr /\ [][NextRetr]_vars

(***************************************************************************)
(* chunkText alone, on page texts of every length up to MaxTextLen        *)
(***************************************************************************)

MaxTextLen == 64
Letters ==
  <<"a", "b", "c", "d", "e", "f", "g", "h", "i", "j", "k", "l", "m", "n", "o", "p", "q", "r",
    "s", "t", "u", "v", "w", "x", "y", "z">>
GapStyles == {"none", "single", "run"}

\* A text of n places: letters that change from place to place and, unless
\* gaps is "none", whitespace at every fifth place (one space, or a run of a
\* space and a newline).
RECURSIVE TextBody(_, _)
TextBody(n, gaps) ==
  IF n = 0 THEN <<>>
  ELSE TextBody(n - 1, gaps)
       \o (IF gaps # "none" /\ n % 5 = 0
             THEN (IF gaps = "single" THEN <<" ">> ELSE <<" ", "\n">>)
             ELSE <<Letters[(n % 26) + 1]>>)

Padding(k) == [i \in 1..k |-> " "]

PageTexts ==
  {Padding(pad) \o TextBody(n, gaps) \o Padding(pad) :
     n \in 0..MaxTextLen, pad \in 0..2, gaps \in GapStyles}

\* The module state while no rebuild and no request is running.
ServiceAtRest ==
  /\ ragChunks = {} /\ ragMeta = {} /\ siteFacts = {}
  /\ jobs = [j \in JobIds |-> IdleJob]
  /\ indexing = FALSE /\ ragReady = FALSE /\ ragBootstrapError = "null"
  /\ seenSiteIds = {}
  /\ lastNightlyRefreshDay = NoDay
  /\ retr = NoRetr

InitChunk ==
  /\ ServiceAtRest
  /\ chunkCall = NoChunkCall
  /\ crawl = NoCrawl

\* chunkText(text) is synchronous: a call starts when none is running.
Chunk(text) ==
  /\ ~chunkCall.called
  /\ chunkCall' = [called |-> TRUE, text |-> text, out |-> ChunkText(text)]
  /\ UNCHANGED <<store, jobs, indexing, ragReady, ragBootstrapError, seenSiteIds,
                 lastNightlyRefreshDay, retr, crawl>>

\* The caller has taken the returned array.
ChunkReturn ==
  /\ chunkCall.called
  /\ chunkCall' = NoChunkCall
  /\ UNCHANGED <<store, jobs, indexing, ragReady, ragBootstrapError, seenSiteIds,
                 lastNightlyRefreshDay, retr, crawl>>

NextChunk ==
  \/ \E text \in PageTexts : Chunk(text)
  \/ ChunkReturn

SpecChunk == InitChunk /\ [][NextChunk]_vars

(***************************************************************************)
(* The loop of chunkText step by step, for any RAG_CHUNK_SIZE and          *)
(* RAG_CHUNK_OVERLAP the environment can set: one action for the part of   *)
(* the function before the loop, one for an iteration.  The code is        *)
(* synchronous, so an iteration that can run does run; the model follows a *)
(* call for its first MaxIterations iterations.                            *)
(***************************************************************************)
MaxLoopLen == 6
MaxChunkSize == 3
MaxIterations == MaxLoopLen + 2
ChunkSizes == -1..MaxChunkSize
ChunkOverlaps == -1..(MaxChunkSize + 1)
LoopTexts ==
  {Padding(pad) \o TextBody(n, gaps) : n \in 0..MaxLoopLen, pad \in 0..1, gaps \in {"none", "single"}}

\* String.prototype.slice(from, to) for any integers: a negative index
\* counts from the end, and both are clamped to 0..length.
SliceFromEnd(s, from, to) ==
  LET at(i) == IF i < 0 THEN Max(Len(s) + i, 0) ELSE Min(i, Len(s))
  IN IF at(from) < at(to) THEN SubSeq(s, at(from) + 1, at(to)) ELSE <<>>

NextStartTwiceBack(end, overlap) == Max(0, end - 2 * overlap)

\* start = Math.max(0, end - CHUNK_OVERLAP).
NextStart(end, overlap) == Max(0, end - overlap)

InitLoop ==
  /\ ServiceAtRest
  /\ chunkCall = NoChunkCall
  /\ crawl = NoCrawl

\* chunkText(text) with CHUNK_SIZE = size and CHUNK_OVERLAP = overlap, up to
\* the loop: the two early returns, or `chunks = []; start = 0`.
ChunkEnter(text, size, overlap) ==
  /\ chunkCall = NoChunkCall
  /\ LET normalized == Trim(CollapseSpaces(text))
         run == [called |-> TRUE, pc |-> "loop", size |-> size, overlap |-> overlap,
                 normalized |-> normalized, start |-> 0, chunks |-> <<>>]
     IN chunkCall' =
          IF normalized = <<>> THEN [run EXCEPT !.pc = "returned"]
          ELSE IF Len(normalized) <= size
            THEN [run EXCEPT !.pc = "returned", !.chunks = <<normalized>>]
          ELSE run
  /\ UNCHANGED <<store, jobs, indexing, ragReady, ragBootstrapError, seenSiteIds,
                 lastNightlyRefreshDay, retr, crawl>>

\* The test of the while loop and one run of its body.
ChunkIterate ==
  /\ chunkCall # NoChunkCall
  /\ chunkCall.pc = "loop"
  /\ Len(chunkCall.chunks) < MaxIterations
  /\ LET c == chunkCall
         len == Len(c.normalized)
         end == Min(len, c.start + c.size)
         pushed == Append(c.chunks, SliceFromEnd(c.normalized, c.start, end))
     IN chunkCall' =
          IF ~(c.start < len) THEN [c EXCEPT !.pc = "returned"]
          ELSE IF end >= len THEN [c EXCEPT !.pc = "returned", !.chunks = pushed]
          ELSE [c EXCEPT !.chunks = pushed, !.start = NextStart(end, c.overlap)]
  /\ UNCHANGED <<store, jobs, indexing, ragReady, ragBootstrapError, seenSiteIds,
                 lastNightlyRefreshDay, retr, crawl>>

NextLoop ==
  \/ \E text \in LoopTexts, size \in ChunkSizes, overlap \in ChunkOverlaps :
       ChunkEnter(text, size, overlap)
  \/ ChunkIterate

SpecLoop == InitLoop /\ [][NextLoop]_vars /\ WF_vars(ChunkIterate)

(***************************************************************************)
(* scrapesite alone: the crawl loop over the site                          *)
(***************************************************************************)

MaxPagesLimit == 4

\* canVisitMore()
CanVisitMoreUncapped(visited, maxPages) == TRUE
CanVisitMore(visited, maxPages) == maxPages <= 0 \/ Cardinality(visited) < maxPages

\* The inner while loop: URLs are shifted off the queue until the batch is
\* full or the queue is empty; a URL joins the batch, marked visited, when it
\* was not visited and the page limit allows it.
RECURSIVE TakeBatchUnchecked(_, _, _, _)
TakeBatchUnchecked(queue, visited, batch, maxPages) ==
  IF ~(Len(queue) > 0 /\ Len(batch) < CONCURRENCY)
    THEN [queue |-> queue, visited |-> visited, batch |-> batch]
    ELSE LET url == Head(queue)
         IN IF CanVisitMore(visited, maxPages)
              THEN TakeBatchUnchecked(Tail(queue), visited \cup {url}, Append(batch, url), maxPages)
              ELSE TakeBatchUnchecked(Tail(queue), visited, batch, maxPages)

RECURSIVE TakeBatch(_, _, _, _)
TakeBatch(queue, visited, batch, maxPages) ==
  IF ~(Len(queue) > 0 /\ Len(batch) < CONCURRENCY)
    THEN [queue |-> queue, visited |-> visited, batch |-> batch]
    ELSE LET url == Head(queue)
         IN IF url \notin visited /\ CanVisitMore(visited, maxPages)
              THEN TakeBatch(Tail(queue), visited \cup {url}, Append(batch, url), maxPages)
              ELSE TakeBatch(Tail(queue), visited, batch, maxPages)

LoopHeadNoBreak(c, queue) ==
  IF Len(queue) > 0 /\ CanVisitMore(c.visited, c.maxPages)
    THEN LET t == TakeBatch(queue, c.visited, <<>>, c.maxPages)
         IN [c EXCEPT !.pc = "fetching", !.queue = t.queue, !.visited = t.visited,
                      !.batch = t.batch, !.pending = Range(t.batch),
                      !.discovered = <<>>, !.finished = <<>>,
                      !.started = c.started \o t.batch]
    ELSE [c EXCEPT !.pc = "done", !.queue = queue, !.batch = <<>>, !.pending = {},
                   !.discovered = <<>>, !.finished = <<>>]

\* One pass from the head of the outer while loop, with the queue as it now
\* is, to the next await: the tasks of a new batch have issued their
\* fetches (pc "fetching"), or the loop has ended (pc "done").
\* started lists every URL a fetch was issued for, in order.
LoopHead(c, queue) ==
  IF Len(queue) > 0 /\ CanVisitMore(c.visited, c.maxPages)
    THEN LET t == TakeBatch(queue, c.visited, <<>>, c.maxPages)
         IN IF Len(t.batch) = 0
              THEN [c EXCEPT !.pc = "done", !.queue = t.queue, !.batch = <<>>, !.pending = {},
                             !.discovered = <<>>, !.finished = <<>>]
              ELSE [c EXCEPT !.pc = "fetching", !.queue = t.queue, !.visited = t.visited,
                             !.batch = t.batch, !.pending = Range(t.batch),
                             !.discovered = <<>>, !.finished = <<>>,
                             !.started = c.started \o t.batch]
    ELSE [c EXCEPT !.pc = "done", !.queue = queue, !.batch = <<>>, !.pending = {},
                   !.discovered = <<>>, !.finished = <<>>]

\* The links a task pushes onto discovered: the normalised hrefs that are
\* not null and not visited.
RECURSIVE NewLinks(_, _, _)
NewLinks(links, url, visited) ==
  IF links = <<>> THEN <<>>
  ELSE LET normalized == NormUrl(Head(links), url)
       IN (IF normalized # Null /\ normalized \notin visited THEN <<normalized>> ELSE <<>>)
          \o NewLinks(Tail(links), url, visited)

InitCrawl ==
  /\ ServiceAtRest
  /\ chunkCall = NoChunkCall
  /\ crawl = NoCrawl

\* scrapesite(domain) up to `await fetchSitemapUrls(baseDomain)`, with
\* SCRAPER_MAX_PAGES set to maxPages.
ScrapeStart(maxPages) ==
  /\ crawl.pc = "idle"
  /\ crawl' = [pc |-> "sitemap", maxPages |-> maxPages, queue |-> BuildSeedQueue(SITE_DOMAIN),
               visited |-> {}, batch |-> <<>>, pending |-> {}, discovered |-> <<>>,
               finished |-> <<>>, pages |-> <<>>, added |-> <<>>, started |-> <<>>]
  /\ UNCHANGED <<store, jobs, indexing, ragReady, ragBootstrapError, seenSiteIds,
                 lastNightlyRefreshDay, retr, chunkCall>>

\* fetchSitemapUrls has resolved: its URLs join the queue and the loop makes
\* its first pass.
SitemapDone(sitemapUrls) ==
  /\ crawl.pc = "sitemap"
  /\ crawl' = LoopHead(crawl, crawl.queue \o sitemapUrls)
  /\ UNCHANGED <<store, jobs, indexing, ragReady, ragBootstrapError, seenSiteIds,
                 lastNightlyRefreshDay, retr, chunkCall>>

\* The task of url resumes after `await fetchPage(url)` with the response:
\* nothing on a failure or a text shorter than MIN_TEXT, else the page and
\* its new links are pushed.  finished keeps, in order of completion, what
\* each task of the batch pushed onto discovered.
FetchDone(url, response) ==
  /\ crawl.pc = "fetching"
  /\ url \in crawl.pending
  /\ LET skipped == ~response.ok \/ Len(response.text) < MIN_TEXT
         links == IF skipped THEN <<>> ELSE NewLinks(response.links, url, crawl.visited)
     IN crawl' = [crawl EXCEPT
          !.pending = @ \ {url},
          !.pages = IF skipped THEN @
                    ELSE Append(@, [url |-> url, title |-> response.title,
                                    content |-> Slice(response.text, 0,
                                                      Min(Len(response.text), MAX_CONTENT))]),
          !.discovered = @ \o links,
          !.finished = Append(@, [url |-> url, links |-> links])]
  /\ UNCHANGED <<store, jobs, indexing, ragReady, ragBootstrapError, seenSiteIds,
                 lastNightlyRefreshDay, retr, chunkCall>>

\* Promise.all(tasks) has resolved: the discovered links join the queue,
\* core pages first, and the loop makes its next pass.  added keeps the
\* links just pushed.
BatchDone ==
  /\ crawl.pc = "fetching"
  /\ crawl.pending = {}
  /\ \E links \in {CoreFirst(crawl.discovered)} :
       crawl' = [LoopHead(crawl, crawl.queue \o links) EXCEPT !.added = links]
  /\ UNCHANGED <<store, jobs, indexing, ragReady, ragBootstrapError, seenSiteIds,
                 lastNightlyRefreshDay, retr, chunkCall>>

\* scrapesite has returned crawl.pages to its caller.
ScrapeReturn ==
  /\ crawl.pc = "done"
  /\ crawl' = NoCrawl
  /\ UNCHANGED <<store, jobs, indexing, ragReady, ragBootstrapError, seenSiteIds,
                 lastNightlyRefreshDay, retr, chunkCall>>

NextCrawl ==
  \/ \E maxPages \in 0..MaxPagesLimit : ScrapeStart(maxPages)
  \/ \E sitemapUrls \in SitemapResults : SitemapDone(sitemapUrls)
  \/ \E url \in (IF crawl.pc = "fetching" THEN crawl.pending ELSE {}) :
       \E response \in Responses(url) : FetchDone(url, response)
  \/ BatchDone
  \/ ScrapeReturn

SpecCrawl == InitCrawl /\ [][NextCrawl]_vars

\* The crawl on a site where every fetch completes or times out
\* (fetchSitemapUrls and fetchPage catch every error and carry a timeout),
\* the event loop running the continuation of every settled await.
SitemapEnds == \E sitemapUrls \in SitemapResults : SitemapDone(sitemapUrls)
FetchEnds ==
  \E url \in (IF crawl.pc = "fetching" THEN crawl.pending ELSE {}) :
    \E response \in Responses(url) : FetchDone(url, response)

SpecCrawlFair ==
  SpecCrawl /\ WF_vars(SitemapEnds) /\ WF_vars(FetchEnds) /\ WF_vars(BatchDone)

(***************************************************************************)
(* Properties                                                              *)
(***************************************************************************)
\* The rows a replace of `pages` at time `now` is to leave for the domain:
\* one per (url, chunkId), chunkId counting the chunks of the page from 0.
ExpectedRows(domain, pages, now) ==
  UNION { { [domain |-> domain, url |-> pages[i].url,
             title |-> IF pages[i].title = <<>> THEN Untitled ELSE pages[i].title,
             chunkId |-> k - 1, content |-> ChunkText(pages[i].content)[k],
             updatedAt |-> now] : k \in 1..Len(ChunkText(pages[i].content)) }
          : i \in DOMAIN pages }
ExpectedOf == [o \in ScrapeOutcomes |-> [t \in 0..MaxClock |-> ExpectedRows(SITE_DOMAIN, o, t)]]

\* The step of job j in which the synchronous rest of buildRagIndex runs.
BuildStep(j) == jobs[j].pc = "scraped" /\ jobs'[j].pc = "built"

\* C1: when a rebuild gets through replaceRagChunks (it returns, or fails
\* only at the later site_facts write), getRagChunks(domain) returns exactly
\* the chunks of the pages just scraped, one row per (url, chunkId), each
\* stamped by this replace, whatever the store held before.
C1_ReplaceLeavesExactlyNewChunks ==
  [][\A j \in JobIds :
       (BuildStep(j) /\ jobs'[j].res.err \in {"", ErrStoreFacts})
         => LET got == GetRagChunks(ragChunks', JobDomain(jobs[j].kind))
            IN \E now \in Now :
                 /\ Range(got) = ExpectedOf[jobs[j].pages][now]
                 /\ Len(got) = Cardinality(ExpectedOf[jobs[j].pages][now])]_vars

\* C1 witness: a rebuild has returned normally on day 1 after an earlier
\* rebuild had left its index and facts.
C1_Witness ==
  \E j \in JobIds :
    /\ jobs[j].pc = "built" /\ jobs[j].res.built /\ jobs[j].res.indexedAt = 1
    /\ ragReady
    /\ \E f \in siteFacts : TRUE

\* C2: when a statement of the replace transaction fails, chunks and meta
\* are what they were before the call and buildRagIndex throws.
C2_FailedReplaceRollsBack ==
  [][\A j \in JobIds :
       (BuildStep(j) /\ jobs'[j].fault = "replace")
         => /\ ragChunks' = ragChunks
            /\ ragMeta' = ragMeta
            /\ jobs'[j].res.err # ""
            /\ ~jobs'[j].res.built]_vars

\* C2 witness: a rebuild has failed inside the transaction while the store
\* holds the index of an earlier rebuild.
C2_Witness ==
  \E j \in JobIds :
    /\ jobs[j].pc = "built" /\ jobs[j].fault = "replace"
    /\ ragChunks # {} /\ ragMeta # {}

\* C3: the rows a /api/chat retrieval reads are the complete chunk set of one
\* replace (all chunks of its pages, one stamp), also while a rebuild of the
\* domain is between its crawl and its return.
C3_RetrievalSeesOneCompleteSet ==
  \A j \in JobIds :
    (jobs[j].pc = "answered" /\ jobs[j].status = 200)
      => \E o \in ScrapeOutcomes \ {<<>>}, t \in 0..MaxClock :
           /\ Range(jobs[j].rows) = ExpectedOf[o][t]
           /\ Len(jobs[j].rows) = Cardinality(ExpectedOf[o][t])

\* C3 witness: a retrieval has read the rows of day 1, which replaced those
\* of day 0, while the next rebuild has its pages and is about to write.
C3_Witness ==
  /\ jobs["req"].pc = "answered" /\ jobs["req"].status = 200
  /\ \E i \in DOMAIN jobs["req"].rows : jobs["req"].rows[i].updatedAt = 1
  /\ jobs["idx"].pc = "scraped" /\ jobs["idx"].pages # <<>>

\* C4: a crawl that resolves to no page makes buildRagIndex throw the "no
\* pages were scraped" error and leaves chunks, meta and facts as they were.
C4_EmptyCrawlWritesNothing ==
  [][\A j \in JobIds :
       (BuildStep(j) /\ jobs[j].pages = <<>>)
         => /\ jobs'[j].res.err = ErrNoPages
            /\ ~jobs'[j].res.built
            /\ UNCHANGED store]_vars

\* C4 witness: a rebuild whose crawl fetched nothing has failed for want of
\* pages while the store holds the chunks, meta and facts of an earlier one.
C4_Witness ==
  \E j \in JobIds :
    /\ jobs[j].pc = "built" /\ jobs[j].res.err = ErrNoPages /\ ~jobs[j].fetched
    /\ ragChunks # {} /\ ragMeta # {} /\ siteFacts # {}

\* C5: a crawl that fetched documents from which no chunk is generated makes
\* buildRagIndex throw and leaves the chunks and the meta as they were.
C5_NoChunksWritesNothing ==
  [][\A j \in JobIds :
       (BuildStep(j) /\ jobs[j].fetched /\ ExpectedOf[jobs[j].pages][0] = {})
         => /\ jobs'[j].res.err # ""
            /\ ~jobs'[j].res.built
            /\ ragChunks' = ragChunks
            /\ ragMeta' = ragMeta]_vars

\* C5 witness: a rebuild that fetched a document too short to give a chunk
\* has failed while the store holds the index of an earlier rebuild.
C5_Witness ==
  \E j \in JobIds :
    /\ jobs[j].pc = "built" /\ jobs[j].fetched /\ jobs[j].res.err # ""
    /\ jobs[j].fault = "none" /\ jobs[j].res.err # ErrStoreReplace
    /\ jobs[j].res.err # ErrStoreFacts
    /\ ragChunks # {} /\ ragMeta # {}

\* C6: whenever the store holds chunks and site facts for a domain, they come
\* from the same rebuild: the facts are those extracted from the pages whose
\* chunks are stored.
C6_ChunksAndFactsOfOneRebuild ==
  \A d \in Domains :
    LET rows == {r \in ragChunks : r.domain = d}
        facts == {f \in siteFacts : f.domain = d}
    IN (rows # {} /\ facts # {})
         => \E o \in ScrapeOutcomes \ {<<>>}, t \in 0..MaxClock :
              /\ rows = ExpectedOf[o][t]
              /\ \A f \in facts : f.data = FactsOf[o]

\* C7: ensureRagIndex called by /api/prep without force on a domain whose
\* meta has chunkCount > 0 returns built = false with the stored pageCount,
\* chunkCount and indexedAt, starts no crawl and leaves the store alone; in
\* every other case it starts the crawl of a rebuild, and a rebuild ends
\* with built = true or with an error.
C7_EnsureCachedOrRebuilds ==
  [][/\ (jobs["req"].pc = "resolved" /\ jobs["req"].kind = "prep"
           /\ jobs'["req"] # jobs["req"])
          => LET metaRows == GetRagMeta(ragMeta, MOCK_ID_DOMAIN)
             IN IF ~jobs["req"].force /\ \E m \in metaRows : m.chunkCount > 0
                  THEN /\ jobs'["req"].pc = "built"
                       /\ \E m \in metaRows :
                            jobs'["req"].res =
                              [err |-> "", built |-> FALSE, pageCount |-> m.pageCount,
                               chunkCount |-> m.chunkCount, indexedAt |-> m.indexedAt]
                       /\ UNCHANGED store
                  ELSE /\ jobs'["req"].pc = "crawl"
                       /\ UNCHANGED store
     /\ \A j \in JobIds :
          BuildStep(j) => (jobs'[j].res.built <=> jobs'[j].res.err = "")]_vars

\* C7 witness: on day 1 a /api/prep has been answered from the cache with the
\* counts and the indexedAt of the index built on day 0.
C7_Witness ==
  /\ jobs["req"].pc = "built" /\ jobs["req"].kind = "prep"
  /\ ~jobs["req"].res.built /\ jobs["req"].res.err = ""
  /\ jobs["req"].res.chunkCount > 0 /\ jobs["req"].res.indexedAt = 0
  /\ lastNightlyRefreshDay = 1

\* C8: at most one rebuild of a domain is between the start of its crawl and
\* the end of its writes.
C8_OneRebuildInFlight ==
  \A d \in Domains :
    Cardinality({j \in JobIds : /\ jobs[j].pc \in {"crawl", "scraped"}
                                /\ JobDomain(jobs[j].kind) = d}) <= 1

\* C9: the context retrieveRagContext returns, separators included, is no
\* longer than maxChars.
C9_ContextWithinMaxChars ==
  retr.called => Len(retr.out.context) <= retr.maxChars

\* Row i of the rows read is the only one whose content holds the term (as
\* stored when fold is FALSE, lowercased when fold is TRUE), and no other row
\* holds it in its content, title or url.
Fold(str, fold) == IF fold THEN ToLower(str) ELSE str
OnlyIn(rows, i, term, fold) ==
  /\ Includes(Fold(rows[i].content, fold), term)
  /\ \A k \in DOMAIN rows \ {i} :
       /\ ~Includes(Fold(rows[k].content, fold), term)
       /\ ~Includes(Fold(rows[k].title, fold), term)
       /\ ~Includes(Fold(rows[k].url, fold), term)

\* Row i is ranked first by the call recorded in retr: it heads the sorted
\* array, gives bestScore, and opens the context when the call ran with the
\* default topK and maxChars.
RankedFirst(i) ==
  LET row == retr.rows[i]
      top == retr.out.ranked[1]
  IN /\ top.url = row.url /\ top.chunkId = row.chunkId
     /\ retr.out.bestScore = top.score
     /\ (retr.topK = TOP_K /\ retr.maxChars = MAX_CONTEXT_CHARS)
          => /\ retr.out.used # <<>>
             /\ retr.out.used[1] = top
             /\ SubSeq(retr.out.context, 1, Len(Entry(top))) = Entry(top)

\* C10 as stated: a query that is one term occurring verbatim in the content
\* of exactly one stored chunk, and in no other chunk's content, title or
\* url, ranks that chunk first.
C10_VerbatimTermRanksFirst ==
  retr.called =>
    \A i \in DOMAIN retr.rows : OnlyIn(retr.rows, i, retr.query, FALSE) => RankedFirst(i)

\* C10 amended: a query that is one term tokenize keeps as it is (lowercase
\* letters and digits, longer than 2) and that occurs in the lowercased
\* content of exactly one stored chunk, and in no other chunk's lowercased
\* content, title or url, ranks that chunk first, with a score above 0 that
\* no other chunk reaches.
C10_FoldedTermRanksFirst ==
  retr.called =>
    \A i \in DOMAIN retr.rows :
      (Tokenize(retr.query) = <<retr.query>> /\ OnlyIn(retr.rows, i, retr.query, TRUE))
        => /\ RankedFirst(i)
           /\ retr.out.bestScore > 0
           /\ \A k \in 2..Len(retr.out.ranked) : retr.out.ranked[k].score < retr.out.bestScore

\* C10 witness: with two pages stored, a term found only in a chunk that is
\* not the first in storage order has been looked up with the defaults, and
\* that chunk opens the context.
C10_Witness ==
  /\ retr.called /\ retr.topK = TOP_K /\ retr.maxChars = MAX_CONTEXT_CHARS
  /\ Len(retr.rows) = 4
  /\ \E i \in 2..Len(retr.rows) :
       /\ Tokenize(retr.query) = <<retr.query>>
       /\ OnlyIn(retr.rows, i, retr.query, TRUE)
       /\ retr.out.used[1].chunkId = retr.rows[i].chunkId
       /\ retr.out.used[1].url = retr.rows[i].url

\* The call recorded in retr is one of isLikelyOnTopic.
TopicCalled == retr.called /\ "onTopic" \in DOMAIN retr

\* The whitespace-separated words of a query as typed.
QueryWords(query) == {w \in Range(SplitSpaces(query, 1, <<>>)) : w # <<>>}

\* Some word of the set occurs in the title (titleOnly) or in the title, url
\* or content (otherwise) of some row, compared as stored or lowercased.
OccursInRows(rows, words, fold, titleOnly) ==
  \E w \in words : \E i \in DOMAIN rows :
    \/ Includes(Fold(rows[i].title, fold), w)
    \/ ~titleOnly /\ (Includes(Fold(rows[i].url, fold), w)
                      \/ Includes(Fold(rows[i].content, fold), w))

\* C11 as stated: isLikelyOnTopic is false for every query none of whose
\* words occurs in a stored chunk's title, url or content, and true for every
\* query with a word that occurs verbatim in a stored chunk's title.
C11_VerbatimTopic ==
  TopicCalled =>
    /\ ~OccursInRows(retr.rows, QueryWords(retr.query), FALSE, FALSE) => ~retr.onTopic
    /\ OccursInRows(retr.rows, QueryWords(retr.query), FALSE, TRUE) => retr.onTopic

\* C11 amended: isLikelyOnTopic is false for every query none of whose
\* tokenize terms (lowercased, longer than 2) occurs in a stored chunk's
\* lowercased title, url or content, and true for every query with a tokenize
\* term that occurs in a stored chunk's lowercased title.
C11_FoldedTopic ==
  TopicCalled =>
    /\ ~OccursInRows(retr.rows, Range(Tokenize(retr.query)), TRUE, FALSE) => ~retr.onTopic
    /\ OccursInRows(retr.rows, Range(Tokenize(retr.query)), TRUE, TRUE) => retr.onTopic

\* C11 witness: with chunks stored, a query whose term stands in a chunk's
\* title was judged on topic.
C11_Witness ==
  /\ TopicCalled /\ retr.rows # <<>>
  /\ OccursInRows(retr.rows, Range(Tokenize(retr.query)), TRUE, TRUE)
  /\ retr.onTopic

\* The total length of the entries of the first k ranked chunks.
RECURSIVE EntriesLen(_, _)
EntriesLen(ranked, k) == IF k = 0 THEN 0 ELSE EntriesLen(ranked, k - 1) + Len(Entry(ranked[k]))

\* Every chunk whose entry is in the context from the third place onward has
\* a score above 0, and the entries are those of the highest ranks in order.
BeyondTwoPositive ==
  \A k \in DOMAIN retr.out.used :
    /\ retr.out.used[k] = retr.out.ranked[k]
    /\ k >= 3 => retr.out.used[k].score > 0

\* C12 as stated: the two highest-ranked chunks are in the returned context
\* whatever their score, and every chunk in it from rank 3 onward has a score
\* above 0.
C12_TopTwoAlwaysIncluded ==
  retr.called =>
    /\ \A k \in 1..Min(2, Len(retr.out.ranked)) :
         k <= Len(retr.out.used) /\ retr.out.used[k] = retr.out.ranked[k]
    /\ BeyondTwoPositive

\* C12 amended: each of the two highest-ranked chunks is in the returned
\* context whatever its score, provided topK admits its rank and the entries
\* up to it fit within maxChars; every chunk in the context from rank 3
\* onward has a score above 0, and at most topK chunks are in it.
C12_TopTwoWithinTopKAndBudget ==
  retr.called =>
    /\ \A k \in 1..Min(2, Len(retr.out.ranked)) :
         (k <= retr.topK /\ EntriesLen(retr.out.ranked, k) <= retr.maxChars)
           => k <= Len(retr.out.used) /\ retr.out.used[k] = retr.out.ranked[k]
    /\ BeyondTwoPositive
    /\ Len(retr.out.used) <= retr.topK

\* C12 witness: a call with the defaults put the second-ranked chunk into the
\* context with score 0 and left out the third-ranked one, also of score 0.
C12_Witness ==
  /\ retr.called /\ retr.topK = TOP_K /\ retr.maxChars = MAX_CONTEXT_CHARS
  /\ Len(retr.out.ranked) >= 3
  /\ Len(retr.out.used) = 2
  /\ retr.out.used[2].score = 0
  /\ retr.out.ranked[3].score = 0

\* The whitespace-normalized text of the chunkText call recorded in chunkCall.
Normalized == Trim(CollapseSpaces(chunkCall.text))

\* C13 as stated: for a text whose normalized length is at most the chunk
\* size, zero included, chunkText returns exactly one chunk, the normalized
\* text.
C13_ShortTextOneChunk ==
  (chunkCall.called /\ Len(Normalized) <= CHUNK_SIZE) => chunkCall.out = <<Normalized>>

\* C13 amended: for a text whose normalized length is between 1 and the
\* chunk size chunkText returns exactly one chunk, the normalized text; for a
\* text whose normalized length is 0 it returns no chunk.
C13_ShortNonEmptyTextOneChunk ==
  (chunkCall.called /\ Len(Normalized) <= CHUNK_SIZE) =>
     chunkCall.out = IF Len(Normalized) = 0 THEN <<>> ELSE <<Normalized>>

\* C13 witness: a text with surplus whitespace whose normalized form is not
\* empty and fits one chunk came back as that one chunk.
C13_Witness ==
  /\ chunkCall.called
  /\ Len(Normalized) \in 1..CHUNK_SIZE
  /\ Len(Normalized) < Len(chunkCall.text)
  /\ chunkCall.out = <<Normalized>>

\* 0-based offsets of chunk i (0-based) when the windows advance by
\* chunk size - overlap.
WindowStart(i) == i * (CHUNK_SIZE - CHUNK_OVERLAP)
WindowEnd(i) == WindowStart(i) + Len(chunkCall.out[i + 1])

\* C14: for normalized text longer than the chunk size, chunk i is the text
\* from offset i * (chunk size - overlap); every chunk but the last has
\* length chunk size; consecutive chunks share exactly `overlap` characters;
\* the chunk ranges start at 0, end at L and leave no gap.
C14_OverlappingWindowsCoverText ==
  (chunkCall.called /\ Len(Normalized) > CHUNK_SIZE) =>
    LET out == chunkCall.out
        n == Len(out)
    IN /\ n >= 2
       /\ \A i \in 0..(n - 1) :
            /\ Len(out[i + 1]) >= 1
            /\ out[i + 1] = Slice(Normalized, WindowStart(i), WindowEnd(i))
       /\ \A i \in 0..(n - 2) : Len(out[i + 1]) = CHUNK_SIZE
       /\ \A i \in 0..(n - 2) :
            /\ WindowEnd(i) - WindowStart(i + 1) = CHUNK_OVERLAP
            /\ Len(out[i + 2]) >= CHUNK_OVERLAP
            /\ SubSeq(out[i + 1], CHUNK_SIZE - CHUNK_OVERLAP + 1, CHUNK_SIZE)
                 = SubSeq(out[i + 2], 1, CHUNK_OVERLAP)
       /\ WindowStart(0) = 0
       /\ WindowEnd(n - 1) = Len(Normalized)

\* C14 witness: a text was cut into at least three chunks, the last one
\* shorter than the chunk size.
C14_Witness ==
  /\ chunkCall.called
  /\ Len(chunkCall.out) >= 3
  /\ Len(chunkCall.out[Len(chunkCall.out)]) < CHUNK_SIZE

\* A step of a chat handler (/api/chat or /api/chat/stream).
ChatStep ==
  /\ jobs'["req"] # jobs["req"]
  /\ jobs["req"].kind = "chat" \/ jobs'["req"].kind = "chat"

\* getRagMeta(domain) is absent or has chunkCount 0.
NotPrepared ==
  LET ragMetaRows == GetRagMeta(ragMeta, MOCK_ID_DOMAIN)
  IN ragMetaRows = {} \/ \E m \in ragMetaRows : m.chunkCount = 0

\* C17: a chat request that finds no IndexMeta, or one with chunkCount 0, is
\* answered 412 without a retrieval or a model call, and no step of a chat
\* handler starts a crawl or a rebuild or writes the store or the flags.
C17_ChatNeverRebuilds ==
  [][ChatStep =>
        /\ UNCHANGED <<store, indexing, ragReady, ragBootstrapError, lastNightlyRefreshDay>>
        /\ jobs'["idx"] = jobs["idx"]
        /\ jobs'["req"].pc \in {"idle", "resolved", "answered", "model"}
        /\ (jobs["req"].pc = "resolved" /\ NotPrepared)
             => /\ jobs'["req"].pc = "answered"
                /\ jobs'["req"].status = 412
                /\ jobs'["req"].rows = <<>>
        /\ jobs["req"].status = 412 => jobs'["req"] = IdleJob
        /\ jobs'["req"].pc = "model" => jobs["req"].status = 200]_vars

\* C17 witness: a chat request was answered 412 while the store held no
\* metadata and no rebuild was running.
C17_Witness ==
  /\ jobs["req"].kind = "chat" /\ jobs["req"].pc = "answered"
  /\ jobs["req"].status = 412
  /\ ragMeta = {} /\ ragChunks = {}
  /\ ~indexing

\* The once-a-minute timer has observed 01:00 on a day it had not stamped.
NightlyObserved == lastNightlyRefreshDay' # lastNightlyRefreshDay

CrawlRunning == crawl.pc \in {"fetching", "done"}

\* The loop is about to evaluate its head after a batch: every task of the
\* batch has finished and Promise.all resolves.
BatchEnds == crawl.pc = "fetching" /\ crawl.pending = {} /\ crawl' # crawl

\* C15: with max pages N > 0 at most N URLs are marked visited, at most N
\* fetches are issued and at most N pages are returned; after a batch the
\* loop goes on exactly when the queue holds an unvisited URL and fewer than
\* N URLs are visited (N = 0: no limit); when it has ended with N = 0 the
\* queue is empty.
C15_PageLimitAndLoopEnd ==
  /\ [](CrawlRunning =>
          /\ crawl.maxPages > 0 =>
               /\ Cardinality(crawl.visited) <= crawl.maxPages
               /\ Len(crawl.started) <= crawl.maxPages
               /\ Len(crawl.pages) <= crawl.maxPages
          /\ crawl.pc = "done" =>
               /\ \/ Range(crawl.queue) \ crawl.visited = {}
                  \/ crawl.maxPages > 0 /\ Cardinality(crawl.visited) >= crawl.maxPages
               /\ crawl.maxPages = 0 => crawl.queue = <<>>)
  /\ [][BatchEnds =>
          LET goesOn ==
                /\ (Range(crawl.queue) \cup Range(crawl.discovered)) \ crawl.visited # {}
                /\ crawl.maxPages = 0 \/ Cardinality(crawl.visited) < crawl.maxPages
          IN /\ crawl'.pc = "fetching" <=> goesOn
             /\ crawl'.pc = "done" <=> ~goesOn
             /\ crawl'.pc = "fetching" => crawl'.batch # <<>>]_vars

\* C15 witness: a crawl limited to more pages than one batch holds has ended
\* with exactly that many URLs visited, unvisited URLs left over, and a page.
C15_Witness ==
  /\ crawl.pc = "done"
  /\ crawl.maxPages > CONCURRENCY
  /\ Cardinality(crawl.visited) = crawl.maxPages
  /\ Len(crawl.pages) >= 1

\* What the tasks of the batch pushed onto discovered, had they finished in
\* the order of the batch.
RECURSIVE LinksInBatchOrder(_, _, _)
LinksInBatchOrder(finished, batch, k) ==
  IF k > Len(batch) THEN <<>>
  ELSE LET done == {i \in DOMAIN finished : finished[i].url = batch[k]}
       IN (IF done = {} THEN <<>> ELSE finished[CHOOSE i \in done : TRUE].links)
          \o LinksInBatchOrder(finished, batch, k + 1)

\* C18: the links appended to the queue after a batch are the same, in the
\* same order, for every order in which the fetches of the batch complete:
\* they are what completion in batch order gives.
C18_AppendOrderIndependentOfCompletion ==
  (crawl.pc = "fetching" /\ crawl.pending = {}) =>
     CoreFirst(crawl.discovered)
       = CoreFirst(LinksInBatchOrder(crawl.finished, crawl.batch, 1))

NoDuplicates(seq) == \A i, k \in DOMAIN seq : seq[i] = seq[k] => i = k
PageUrls == [i \in DOMAIN crawl.pages |-> crawl.pages[i].url]

\* C19: within one run a fetch is issued at most once per URL; a URL is
\* marked visited in the step that puts it into a batch, which is the step
\* that issues its fetch and needs it unvisited, whatever became of earlier
\* fetches; the pages have pairwise distinct URLs, all of them fetched.
C19_EachUrlFetchedOnce ==
  /\ [](CrawlRunning =>
          /\ NoDuplicates(crawl.started)
          /\ Range(crawl.started) = crawl.visited
          /\ Range(crawl.batch) \subseteq crawl.visited
          /\ crawl.pending \subseteq Range(crawl.batch)
          /\ NoDuplicates(PageUrls)
          /\ Range(PageUrls) \subseteq crawl.visited \ crawl.pending)
  /\ [][(CrawlRunning /\ crawl'.pc = "fetching" /\ crawl'.started # crawl.started) =>
          /\ crawl'.started = crawl.started \o crawl'.batch
          /\ crawl'.pending = Range(crawl'.batch)
          /\ Range(crawl'.batch) \cap crawl.visited = {}
          /\ crawl'.visited = crawl.visited \cup Range(crawl'.batch)]_vars

\* C19 witness: a run has ended in which the fetch of the home page failed,
\* the about page, which links to the home page, was scraped, and the home
\* page was fetched that one time.
C19_Witness ==
  /\ crawl.pc = "done"
  /\ UrlRoot \in crawl.visited /\ UrlRoot \notin Range(PageUrls)
  /\ UrlAbout \in Range(PageUrls)
  /\ Cardinality({i \in DOMAIN crawl.started : crawl.started[i] = UrlRoot}) = 1

\* C20: a batch holds at most `concurrency` URLs; while a fetch of the batch
\* is outstanding the queue does not change; the links pushed after a batch
\* are the discovered ones, those of an about, about-us, contact, contact-us
\* or services path before all others, and they are pushed at the end of the
\* queue.
C20_BatchBoundAndCoreFirst ==
  /\ [](CrawlRunning => Len(crawl.batch) <= CONCURRENCY)
  /\ [][(crawl.pc = "fetching" /\ crawl.pending # {}) =>
          /\ crawl'.pc = "fetching"
          /\ crawl'.queue = crawl.queue
          /\ crawl'.added = crawl.added]_vars
  /\ [][BatchEnds =>
          LET added == crawl'.added
              pushed == crawl.queue \o added
          IN /\ Len(added) = Len(crawl.discovered)
             /\ \A u \in Range(added) \cup Range(crawl.discovered) :
                  Cardinality({i \in DOMAIN added : added[i] = u})
                    = Cardinality({i \in DOMAIN crawl.discovered : crawl.discovered[i] = u})
             /\ \A i, k \in DOMAIN added : (i < k /\ IsCorePath(added[k])) => IsCorePath(added[i])
             /\ \E n \in 0..Len(pushed) : crawl'.queue = SubSeq(pushed, n + 1, Len(pushed))]_vars

\* C20 witness: after a batch whose pages linked to other pages before core
\* pages, the links were pushed with two core pages ahead of the others.
C20_Witness ==
  /\ crawl.pc = "fetching"
  /\ Len(crawl.added) >= 4
  /\ IsCorePath(crawl.added[1]) /\ IsCorePath(crawl.added[2])
  /\ ~IsCorePath(crawl.added[3])
  /\ crawl.added[Len(crawl.added)] \in Range(crawl.queue)

\* The URL has the origin of the seed domain, no fragment, no query string
\* and no skipped asset extension at its end.
EndsWith(str, suffix) == OccursAt(str, suffix, Len(str) - Len(suffix) + 1)
CleanUrl(u) ==
  /\ SubSeq(u, 1, Len(SITE_DOMAIN) + 1) = SITE_DOMAIN \o <<"/">>
  /\ "#" \notin Range(u)
  /\ "?" \notin Range(u)
  /\ \A ext \in SkipExtensions : ~EndsWith(ToLower(u), <<".">> \o ext)

\* C21: at every point of a crawl every URL in the queue, in the visited
\* set, among the discovered links and in the pages has the origin of the
\* seed domain, no fragment, no query string and no skipped asset extension,
\* whether it came from the seed list, the extra URLs, a sitemap or a link.
C21_OnlyCleanSameOriginUrls ==
  crawl.pc \in {"sitemap", "fetching", "done"} =>
    \A u \in Range(crawl.queue) \cup crawl.visited \cup Range(crawl.discovered)
             \cup Range(crawl.added) \cup {crawl.pages[i].url : i \in DOMAIN crawl.pages} :
      CleanUrl(u)

\* C21 witness: the home page, which links to a foreign site, to an image
\* and to pages by URLs with a fragment or a query string, has been scraped,
\* and its links and the operator's extra URL were fetched in their
\* normalised form.
C21_Witness ==
  /\ crawl.pc = "done"
  /\ UrlRoot \in {crawl.pages[i].url : i \in DOMAIN crawl.pages}
  /\ UrlBlog \in crawl.visited
  /\ UrlTeam \in crawl.visited

\* The call recorded in retr is one of scoreChunk.
ScoreCalled == "scored" \in DOMAIN retr

\* The non-overlapping occurrences of the term found from left to right: a
\* match counts exactly when no counted match before it reaches into it.
LeftToRightMatches(hay, term) ==
  LET matches == {i \in 1..Len(hay) : OccursAt(hay, term, i)}
  IN CHOOSE counted \in SUBSET matches :
       \A p \in matches :
         p \in counted <=> \A q \in counted : q < p => q + Len(term) <= p

\* What the claim gives for the terms from the k-th on.
RECURSIVE ClaimedScore(_, _, _, _, _)
ClaimedScore(content, title, url, terms, k) ==
  IF k > Len(terms) THEN 0
  ELSE Cardinality(LeftToRightMatches(
           ToLower(title \o <<" ">> \o url \o <<" ">> \o content), terms[k]))
       + (IF Includes(ToLower(title), terms[k]) THEN 4 ELSE 0)
       + (IF Includes(ToLower(url), terms[k]) THEN 3 ELSE 0)
       + ClaimedScore(content, title, url, terms, k + 1)

\* C22: scoreChunk is the sum over the query terms, a repeated term counted
\* each time, of the non-overlapping left-to-right substring occurrences of
\* the term in lowercase(title + " " + url + " " + content), plus 4 when the
\* lowercased title contains the term, plus 3 when the lowercased url does.
C22_ScoreIsOccurrencesPlusBonuses ==
  ScoreCalled =>
    retr.score = ClaimedScore(retr.content, retr.title, retr.url, retr.queryTerms, 1)

\* C22 witness: a term given twice, which overlaps itself in the content and
\* stands inside a longer word of the title and of the url, has been scored.
C22_Witness ==
  /\ ScoreCalled
  /\ Len(retr.queryTerms) = 2 /\ retr.queryTerms[1] = retr.queryTerms[2]
  /\ LET hay == ToLower(retr.title \o <<" ">> \o retr.url \o <<" ">> \o retr.content)
         term == retr.queryTerms[1]
     IN /\ Cardinality(LeftToRightMatches(hay, term)) < MatchCount(hay, term)
        /\ Includes(ToLower(retr.title), term) /\ retr.title # term
        /\ Includes(ToLower(retr.url), term)
  /\ retr.score > 14

\* The place, in the rows getRagChunks returned, of a ranked chunk.
PlaceInRows(chunk) ==
  CHOOSE i \in DOMAIN retr.rows :
    retr.rows[i].url = chunk.url /\ retr.rows[i].chunkId = chunk.chunkId

\* The score of row i for the query of the call.
RowScore(i) ==
  ScoreChunk(retr.rows[i].content, retr.rows[i].title, retr.rows[i].url, Tokenize(retr.query))

\* C23: the ranking lists every stored chunk of the domain once with its
\* score, in descending order of score; chunks of equal score stand in the
\* (url, chunkId) ascending order in which getRagChunks returned them;
\* bestScore is the greatest score of a stored chunk, 0 when none is stored,
\* whatever topK and maxChars are.
C23_RankedByScoreStable ==
  retr.called =>
    LET ranked == retr.out.ranked
        rows == retr.rows
    IN /\ {[url |-> r.url, chunkId |-> r.chunkId] : r \in Range(rows)}
            = {[url |-> c.url, chunkId |-> c.chunkId] :
                 c \in {x \in ragChunks : x.domain = SITE_DOMAIN}}
       /\ Len(ranked) = Len(rows)
       /\ \A i \in DOMAIN rows : \A k \in DOMAIN rows :
            i < k => \/ StrLess(rows[i].url, rows[k].url)
                     \/ rows[i].url = rows[k].url /\ rows[i].chunkId < rows[k].chunkId
       /\ {PlaceInRows(ranked[i]) : i \in DOMAIN ranked} = DOMAIN rows
       /\ \A i \in DOMAIN ranked : ranked[i].score = RowScore(PlaceInRows(ranked[i]))
       /\ \A i \in DOMAIN ranked : \A k \in DOMAIN ranked :
            i < k => \/ ranked[i].score > ranked[k].score
                     \/ /\ ranked[i].score = ranked[k].score
                        /\ PlaceInRows(ranked[i]) < PlaceInRows(ranked[k])
       /\ retr.out.bestScore = MaxOf({0} \cup {RowScore(i) : i \in DOMAIN rows})

\* C23 witness: of four stored chunks the third in storage order scored
\* highest and was ranked first, another scored less, and the two chunks of
\* score 0 followed in storage order, the call having topK 0.
C23_Witness ==
  /\ retr.called /\ retr.topK = 0
  /\ Len(retr.rows) = 4
  /\ PlaceInRows(retr.out.ranked[1]) = 3
  /\ retr.out.ranked[1].score > retr.out.ranked[2].score
  /\ retr.out.ranked[2].score > 0
  /\ retr.out.ranked[3].score = 0 /\ retr.out.ranked[4].score = 0
  /\ retr.out.bestScore = retr.out.ranked[1].score

\* A step in which a request comes back from `await resolveSiteId(siteId)`.
ResolverStep == jobs["req"].pc = "idle" /\ jobs'["req"].pc = "resolved"

\* A step in which /api/prep, asked without force, starts a rebuild of a
\* domain that has an index with chunks.
PrepRebuildsIndexed ==
  /\ jobs["req"].pc = "resolved" /\ jobs["req"].kind = "prep"
  /\ ~jobs["req"].asked
  /\ \E m \in GetRagMeta(ragMeta, MOCK_ID_DOMAIN) : m.chunkCount > 0
  /\ jobs'["req"].pc = "crawl"

C24_LaterCallSeen ==
  /\ jobs["req"].pc = "resolved" /\ jobs["req"].kind = "prep"
  /\ jobs["req"].siteId = "site-1" /\ ~jobs["req"].asked /\ ~jobs["req"].updated
  /\ \E m \in GetRagMeta(ragMeta, MOCK_ID_DOMAIN) : m.chunkCount > 0

\* A step in which the rebuild that holds the indexing flag (started by
\* /api/scrape or refreshRag) ends with an error.
IndexRebuildFails ==
  /\ jobs["idx"].pc = "built" /\ jobs["idx"].res.err # ""
  /\ jobs'["idx"].pc = "idle"

\* The domain has an index with chunks, which an unforced ensureRagIndex
\* would answer from.
HasIndex == \E m \in GetRagMeta(ragMeta, SITE_DOMAIN) : m.chunkCount > 0

\* C25: a failed rebuild of /api/scrape or refreshRag leaves ragReady false
\* and indexing false; a tick of the bootstrap retry that finds ragReady
\* false and indexing false sets indexing and starts a crawl, index or no
\* index in the store (a forced rebuild); a tick that finds ragReady true or
\* indexing true changes nothing.
C25_RetryRebuildsOnlyAfterFailure ==
  [][/\ IndexRebuildFails => ~ragReady' /\ ~indexing'
     /\ RetryTick =>
          IF ~ragReady /\ ~indexing
            THEN indexing' /\ jobs'["idx"].pc = "crawl" /\ jobs'["idx"].kind = "index"
            ELSE UNCHANGED vars]_vars

\* C25 witness: after a rebuild failed over an older index (ragReady false,
\* an error recorded, the index still stored) a rebuild is in flight again
\* and crawling.
C25_Witness ==
  /\ ~ragReady /\ ragBootstrapError \notin {"null", ErrZero}
  /\ HasIndex
  /\ indexing /\ jobs["idx"].pc = "crawl"
  /\ jobs["req"].pc = "idle"

\* A step in which the rebuild that holds the indexing flag ends.
IndexRebuildEnds == jobs["idx"].pc = "built" /\ jobs'["idx"].pc = "idle"

\* C26: indexing is true exactly while the rebuild of /api/scrape or
\* refreshRag is in flight; the end of that rebuild, with or without an
\* error, leaves indexing false, and ragBootstrapError null exactly when
\* ragReady is true; and, its crawl terminating, indexing true leads to
\* indexing false.
C26_IndexingWhileRebuildOnly ==
  /\ [](indexing <=> jobs["idx"].pc # "idle")
  /\ [](jobs["idx"].pc # "idle" => jobs["idx"].kind = "index")
  /\ [][IndexRebuildEnds =>
          /\ ~indexing'
          /\ (ragBootstrapError' = "null") <=> ragReady']_vars
  /\ indexing ~> ~indexing

\* C26 witness: a rebuild that held the flag has thrown after the crawl
\* and has ended: indexing is false again, ragReady false, the error kept.
C26_Witness ==
  /\ ~indexing /\ jobs["idx"].pc = "idle"
  /\ ~ragReady /\ ragBootstrapError \in {ErrStoreReplace, ErrStoreFacts}

\* A call of chunkText is in its loop / has returned.
InLoop == chunkCall # NoChunkCall /\ chunkCall.pc = "loop"
Returned == chunkCall # NoChunkCall /\ chunkCall.pc = "returned"

\* The settings of the call: 0 <= overlap < chunk size, or overlap >= chunk
\* size with a text longer than the chunk size.
OverlapBelowSize ==
  chunkCall # NoChunkCall /\ 0 <= chunkCall.overlap /\ chunkCall.overlap < chunkCall.size
OverlapNotBelowSize ==
  /\ chunkCall # NoChunkCall
  /\ chunkCall.overlap >= chunkCall.size
  /\ Len(chunkCall.normalized) > chunkCall.size

\* C27: with 0 <= overlap < chunk size every iteration that stays in the
\* loop moves the window start strictly forward, the call makes no more
\* iterations than the text has characters, and it returns; with overlap >=
\* chunk size and a text longer than the chunk size the call, unless the
\* text is blank, enters the loop, and every iteration leaves it in the loop
\* with the start where it was.
C27_ChunkLoopTerminates ==
  /\ [][InLoop /\ OverlapBelowSize /\ chunkCall'.pc = "loop"
          => chunkCall'.start > chunkCall.start]_vars
  /\ [](OverlapBelowSize => Len(chunkCall.chunks) <= Max(1, Len(chunkCall.normalized)))
  /\ OverlapBelowSize ~> Returned
  /\ [](OverlapNotBelowSize /\ chunkCall.normalized # <<>> => InLoop)
  /\ [][InLoop /\ OverlapNotBelowSize
          => chunkCall'.pc = "loop" /\ chunkCall'.start = chunkCall.start]_vars

\* C27 witness: a call with 0 < overlap < chunk size has returned after four
\* iterations or more, the last window starting past the chunk size.
C27_Witness ==
  /\ Returned /\ OverlapBelowSize /\ chunkCall.overlap > 0
  /\ Len(chunkCall.chunks) >= 4
  /\ chunkCall.start > chunkCall.size

\* A call with overlap >= chunk size > 0 has run MaxIterations iterations
\* and is still in the loop with start 0.
C27_StuckAtStart ==
  /\ InLoop /\ OverlapNotBelowSize /\ chunkCall.size > 0
  /\ Len(chunkCall.chunks) = MaxIterations

\* A step that runs the head of the outer loop of scrapesite: after the
\* sitemap, or after a batch whose fetches have all ended.
LoopPass ==
  /\ \/ crawl.pc = "sitemap"
     \/ crawl.pc = "fetching" /\ crawl.pending = {}
  /\ crawl' # crawl

\* A crawl is running and has not reached its return.
Crawling == crawl.pc \in {"sitemap", "fetching"}

\* C28: every pass of the loop of scrapesite either ends the loop or marks
\* at least one URL visited that was not, the URLs of its batch; no step
\* removes a URL from visited; and, every fetch ending, a crawl that has
\* started reaches its return, for every page limit 0..MaxPagesLimit.
C28_CrawlTerminates ==
  /\ [][LoopPass =>
          \/ crawl'.pc = "done" /\ crawl'.visited = crawl.visited
          \/ /\ crawl'.pc = "fetching"
             /\ crawl.visited \subseteq crawl'.visited
             /\ crawl'.visited \ crawl.visited = Range(crawl'.batch)
             /\ crawl'.visited # crawl.visited]_vars
  /\ [][Crawling /\ ~LoopPass => crawl'.visited = crawl.visited]_vars
  /\ Crawling ~> (crawl.pc = "done")

\* C28 witness: a crawl with no page limit has returned after visiting more
\* URLs than any limit of the model allows, in more than two batches, with
\* nothing left in its queue.
C28_Witness ==
  /\ crawl.pc = "done"
  /\ crawl.maxPages = 0
  /\ Cardinality(crawl.visited) > MaxPagesLimit + CONCURRENCY
  /\ Len(crawl.started) > 2 * CONCURRENCY
  /\ crawl.queue = <<>>

====
